---- MODULE Spec2Model ----
(***************************************************************************)
(* Verification model of the 3D CT viewer: the DICOM folder pipeline       *)
(* (DicomParser.processDicomFolder, three parser variants), the tag-stream *)
(* decoder (DicomParser.parseDicom), the atlas packer                      *)
(* (VolumeRenderer.loadVolume) and the interactive VolumeRenderer (mouse   *)
(* and wheel handlers, setters, render() and its fragment shader), the     *)
(* robust parser's parseDicom on the bytes of a file, and the ray marching *)
(* loop of the fragment shader.                                            *)
(*                                                                         *)
(* Typed arrays are kept run-length encoded: a buffer is a record          *)
(* [kind, runs] where runs is a sequence of [n |-> count, v |-> value],    *)
(* so a Uint8Array(262144) of zeros is one run.  Every operator on         *)
(* buffers below is defined by the samples it denotes.                     *)
(***************************************************************************)
EXTENDS Integers, Sequences, FiniteSets, TLC

VARIABLES
    variant,      \* which parser file is loaded: "strict" | "fixed" | "robust"
    files,        \* the FileList handed to processDicomFolder
    fpc,          \* position in processDicomFolder
    fidx,         \* index of the file the current loop is at (1-based)
    slices,       \* the local array `slices`
    accepted,     \* history: indices of the files a slice was pushed for
    volumeData,   \* the local `volumeData` before the 16-bit normalization
    result,       \* the returned {data, dimensions}
    outcome,      \* "pending" | "returned" | "thrown"
    recovered,    \* history: the recovery loop was entered
    \* parseDicom (strict, fixed)
    dvariant,     \* "strict" | "fixed"
    elems,        \* history: the elements the buffer was encoded from
    buf,          \* the bytes of arrayBuffer
    dpc,          \* "loop" | "tail" | "done" | "idle"
    offset,       \* the local `offset`
    locals,       \* metadata, pixelData, rows, columns, bitsAllocated, pixelRepresentation
    visited,      \* history: tag, VR, value offset and length of each element handled
    abandoned,    \* history: number of elements abandoned for overrunning the buffer
    caught,       \* history: number of passes through the catch branch
    raised,       \* an exception left parseDicom
    \* parseDicom (robust)
    arrayBuffer,  \* the bytes of the file, run-length encoded
    hpc,          \* "locate" | "extract" | "estimate" | "infer" | "returned" |
                  \* "rejected" | "idle"
    heur,         \* the locals pixelDataInfo, pixelData and dims
    rangeError,   \* a RangeError left findPixelData
    \* fragment shader main(), the ray marching of one fragment
    ray,              \* rayDir as [dir, den]: the unit vector dir / den
    mpc,              \* "loop" | "done" | "background" | "idle"
    steps,            \* the local `steps`, equal to the loop counter i
    currentPosition,  \* in units of 1 / (200 * ray.den)
    accumulatedAlpha, \* in ten-thousandths
    density,          \* the alpha the samples contribute, by step
    composited,       \* history: the steps at which a sample was composited
    \* VolumeRenderer
    rpc,            \* "ready" | "hung" | "idle"
    thisVolumeData, \* this.volumeData
    volumeTexture,  \* this.volumeTexture has been created
    textureData,    \* the texels last uploaded by texImage2D
    textureLayout,  \* this.textureLayout
    grid,           \* history: slicesPerRow and rows of the last load
    adjusted,       \* history: the last load replaced the declared dimensions
    params,         \* this.threshold, opacity, windowLevel, windowWidth, rotationX,
                    \* rotationY, zoom
    mouse,          \* this.isDragging, lastMouseX, lastMouseY
    drawn,          \* history: what the last render() handed to the shader and how
                    \* many render() calls ran in a row, if no other handler ran
                    \* since
    canvas,         \* canvas.width, canvas.height
    loadFailed,     \* history: the last loadVolume call threw
    offered         \* the volumes the page can pass to loadVolume

folderVars ==
    <<variant, files, fpc, fidx, slices, accepted, volumeData, result, outcome, recovered>>

decoderVars ==
    <<dvariant, elems, buf, dpc, offset, locals, visited, abandoned, caught, raised>>

rendererVars ==
    <<rpc, thisVolumeData, volumeTexture, textureData, textureLayout, grid, adjusted,
      params, mouse, canvas, drawn, loadFailed, offered>>

heurVars == <<arrayBuffer, hpc, heur, rangeError>>

marchVars ==
    <<ray, mpc, steps, currentPosition, accumulatedAlpha, density, composited>>

vars == <<folderVars, decoderVars, heurVars, marchVars, rendererVars>>

----------------------------------------------------------------------------
(* Bounds *)

MaxFiles == 3

----------------------------------------------------------------------------
(* Typed arrays, run-length encoded *)

Run(n, v) == [n |-> n, v |-> v]

\* the runs of n copies of v (none when n <= 0)
Fill(n, v) == IF n > 0 THEN <<Run(n, v)>> ELSE <<>>

Buf(kind, runs) == [kind |-> kind, runs |-> runs]

\* `null` pixelData
NullBuf == Buf("none", <<>>)

RECURSIVE RunsLen(_)
RunsLen(rs) == IF rs = <<>> THEN 0 ELSE Head(rs).n + RunsLen(Tail(rs))

\* TypedArray.length
BLen(b) == RunsLen(b.runs)

\* the first k samples of rs
RECURSIVE RunsTake(_, _)
RunsTake(rs, k) ==
    IF k <= 0 \/ rs = <<>> THEN <<>>
    ELSE IF Head(rs).n <= k
         THEN <<Head(rs)>> \o RunsTake(Tail(rs), k - Head(rs).n)
         ELSE <<Run(k, Head(rs).v)>>

\* rs without its first k samples
RECURSIVE RunsDrop(_, _)
RunsDrop(rs, k) ==
    IF k <= 0 \/ rs = <<>> THEN rs
    ELSE IF Head(rs).n <= k
         THEN RunsDrop(Tail(rs), k - Head(rs).n)
         ELSE <<Run(Head(rs).n - k, Head(rs).v)>> \o Tail(rs)

\* sample i (0-based) of rs; 0 <= i < RunsLen(rs)
RECURSIVE RunsAt(_, _)
RunsAt(rs, i) ==
    IF i < Head(rs).n THEN Head(rs).v ELSE RunsAt(Tail(rs), i - Head(rs).n)

BAt(b, i) == RunsAt(b.runs, i)

\* the set of sample values of rs
RunsValues(rs) == {rs[j].v : j \in 1..Len(rs)}

\* element conversion on store into a typed array of the given kind
ToKind(kind, v) ==
    IF kind = "u8" THEN v % 256
    ELSE IF kind = "u16" THEN v % 65536
    ELSE IF kind = "i16" THEN ((v + 32768) % 65536) - 32768
    ELSE v

RunsConv(kind, rs) == [j \in 1..Len(rs) |-> Run(rs[j].n, ToKind(kind, rs[j].v))]

\* TypedArray.prototype.slice(0, k): same kind, first k samples
BSlice0(b, k) == Buf(b.kind, RunsTake(b.runs, k))

SetMin(S) == CHOOSE x \in S : \A y \in S : x <= y
SetMax(S) == CHOOSE x \in S : \A y \in S : x >= y

----------------------------------------------------------------------------
(* Program constants *)

\* "Arbitrary minimum" of samples for a short record to be padded
MinSamples == 100

\* default rows/columns when none can be derived
DefaultDim == 512

----------------------------------------------------------------------------
(* Arithmetic helpers *)

\* Math.floor(Math.sqrt(n)) for n >= 0
ISqrt(n) == CHOOSE r \in 0..n : r * r <= n /\ (r + 1) * (r + 1) > n

\* Number.isInteger(Math.sqrt(n))
IsSquare(n) == ISqrt(n) * ISqrt(n) = n

\* Math.ceil(Math.sqrt(n))
CeilSqrt(n) == IF IsSquare(n) THEN ISqrt(n) ELSE ISqrt(n) + 1

\* Math.ceil(a / b) for a >= 0, b > 0
CeilDiv(a, b) == (a + b - 1) \div b

Abs(x) == IF x < 0 THEN -x ELSE x

Max2(a, b) == IF a >= b THEN a ELSE b
Min2(a, b) == IF a <= b THEN a ELSE b

----------------------------------------------------------------------------
(* Input files.  A file is described by what the byte scans find in it:    *)
(* pixelData, rows, columns are what findPixelData with its bit-depth guess *)
(* and findImageDimensions of the robust variant find (512 where no tag is  *)
(* found), rec is what the raw scan of the fixed variant's recovery pass    *)
(* finds, raw are the bytes of the file; hasInst/inst is the instance index *)
(* the file carries in tag (0020,0013).                                     *)

\* file names as sequences of character codes
NameA == <<97>>
NameB == <<98>>
NameC == <<99>>
NameD == <<100>>
NameE == <<101>>

Rec(pixelData, rows, columns) ==
    [found |-> TRUE, pixelData |-> pixelData, rows |-> rows, columns |-> columns]

NoRec == [found |-> FALSE, pixelData |-> NullBuf, rows |-> DefaultDim, columns |-> DefaultDim]

File(name, throws, hasInst, inst, rows, columns, pixelData, rec, raw) ==
    [name |-> name, throws |-> throws, hasInst |-> hasInst, inst |-> inst,
     rows |-> rows, columns |-> columns, pixelData |-> pixelData,
     rec |-> rec, raw |-> raw]

\* 8-bit 12x10 slice, instance 3
FileFull8 ==
    File(NameC, FALSE, TRUE, 3, 10, 12, Buf("u8", <<Run(60, 40), Run(60, 200)>>),
         Rec(Buf("u8", <<Run(60, 40), Run(60, 200)>>), 10, 12),
         Buf("u8", Fill(400, 1)))

\* 16-bit 12x10 slice holding 100, 600 and 300, instance 1
FileLow16 ==
    File(NameA, FALSE, TRUE, 1, 10, 12,
         Buf("u16", <<Run(1, 100), Run(1, 600), Run(118, 300)>>),
         Rec(Buf("u8", <<Run(1, 100), Run(1, 0), Run(1, 88), Run(1, 2), Run(236, 1)>>), 10, 12),
         Buf("u8", Fill(500, 2)))

\* 16-bit 12x10 slice holding 1100 and 700, instance 4
FileHigh16 ==
    File(NameB, FALSE, TRUE, 4, 10, 12, Buf("u16", <<Run(4, 1100), Run(116, 700)>>),
         Rec(Buf("u8", <<Run(240, 4)>>), 10, 12),
         Buf("u8", Fill(500, 3)))

\* 8-bit 11x11 slice, instance 2; the recovery scan finds 110 of its bytes
FileOther8 ==
    File(NameD, FALSE, TRUE, 2, 11, 11, Buf("u8", <<Run(121, 9)>>),
         Rec(Buf("u8", <<Run(110, 9)>>), 11, 11),
         Buf("u8", Fill(400, 4)))

\* 8-bit record of 200 samples with no rows/columns and no instance index
FileNoDims ==
    File(NameE, FALSE, FALSE, 0, DefaultDim, DefaultDim, Buf("u8", <<Run(200, 77)>>),
         NoRec, Buf("u8", Fill(300, 5)))

\* 50 samples declared 12x10, instance 2
FileTiny ==
    File(NameA, FALSE, TRUE, 2, 10, 12, Buf("u8", <<Run(50, 5)>>),
         Rec(Buf("u8", <<Run(50, 5)>>), 10, 12),
         Buf("u8", Fill(100, 6)))

\* arrayBuffer() rejects
FileUnreadable ==
    File(NameB, TRUE, TRUE, 5, 10, 12, NullBuf, NoRec, Buf("u8", <<>>))

\* no pixel-data tag where findPixelData looks; the recovery scan finds 150
\* bytes declared 12x10; 70000 raw bytes
FileRawOnly ==
    File(NameD, FALSE, TRUE, 1, DefaultDim, DefaultDim, NullBuf,
         Rec(Buf("u8", <<Run(150, 33)>>), 10, 12),
         Buf("u8", <<Run(132, 0), Run(69868, 33)>>))

\* no tag at all: 300000 raw bytes
FileHeaderless ==
    File(NameC, FALSE, FALSE, 0, DefaultDim, DefaultDim, NullBuf, NoRec,
         Buf("u8", <<Run(10, 0), Run(299990, 44)>>))

FileSet ==
    {FileFull8, FileLow16, FileHigh16, FileOther8, FileNoDims,
     FileTiny, FileUnreadable, FileRawOnly, FileHeaderless}

Variants == {"strict", "fixed", "robust"}

----------------------------------------------------------------------------
(* parseDicom: what each variant returns for a file *)

Dims(rows, columns) == [rows |-> rows, columns |-> columns]

\* strict: dimensions estimated when rows or columns were not decoded
EstimateDimsStrict(rows, columns, pixelData) ==
    IF rows # 0 /\ columns # 0 THEN Dims(rows, columns)
    ELSE LET totalPixels == BLen(pixelData) IN
         IF totalPixels > 0 /\ IsSquare(totalPixels)
         THEN Dims(ISqrt(totalPixels), ISqrt(totalPixels))
         ELSE Dims(DefaultDim, DefaultDim)

\* fixed: as strict, but floor/ceil of the square root as the last fallback
EstimateDimsFixed(rows, columns, pixelData) ==
    IF rows # 0 /\ columns # 0 THEN Dims(rows, columns)
    ELSE LET totalPixels == BLen(pixelData) IN
         IF totalPixels > 0
         THEN IF IsSquare(totalPixels)
              THEN Dims(ISqrt(totalPixels), ISqrt(totalPixels))
              ELSE Dims(ISqrt(totalPixels), CeilSqrt(totalPixels))
         ELSE Dims(DefaultDim, DefaultDim)

\* robust: the [w, h] list of "common CT scan sizes", in order
commonSizes ==
    << <<512, 512>>, <<256, 256>>, <<1024, 1024>>, <<128, 128>>,
       <<256, 512>>, <<512, 256>>, <<1024, 512>>, <<512, 1024>> >>

\* robust: the inference with floor and ceiling of the square root as the
\* last resort, as the fixed parser estimates
InferDimsRounded(rows, columns, totalPixels) ==
    IF rows * columns = totalPixels THEN Dims(rows, columns)
    ELSE LET hits == {k \in 1..Len(commonSizes) :
                         commonSizes[k][1] * commonSizes[k][2] = totalPixels}
         IN IF hits # {}
            THEN Dims(commonSizes[SetMin(hits)][2], commonSizes[SetMin(hits)][1])
            ELSE IF IsSquare(totalPixels)
            THEN Dims(ISqrt(totalPixels), ISqrt(totalPixels))
            ELSE Dims(ISqrt(totalPixels), CeilSqrt(totalPixels))

\* robust: dimensions re-derived when rows*columns disagrees with the count
InferDims(rows, columns, totalPixels) ==
    IF rows * columns = totalPixels THEN Dims(rows, columns)
    ELSE LET hits == {k \in 1..Len(commonSizes) :
                         commonSizes[k][1] * commonSizes[k][2] = totalPixels}
         IN IF hits # {}
            THEN Dims(commonSizes[SetMin(hits)][2], commonSizes[SetMin(hits)][1])
            ELSE IF IsSquare(totalPixels)
            THEN Dims(ISqrt(totalPixels), ISqrt(totalPixels))
            ELSE LET ws == {w \in 1..ISqrt(totalPixels) : totalPixels % w = 0} IN
                 IF ws = {} THEN Dims(rows, columns)
                 ELSE Dims(totalPixels \div SetMax(ws), SetMax(ws))

\* robust: 'DICM' at offset 128
HasDicm(raw) ==
    /\ BLen(raw) > 131
    /\ <<BAt(raw, 128), BAt(raw, 129), BAt(raw, 130), BAt(raw, 131)>> = <<68, 73, 67, 77>>

\* robust: the size heuristics applied when no pixel-data tag was found
SizeFallback(rows, columns, raw) ==
    LET est  == rows * columns
        len  == BLen(raw)
        s1   == IF HasDicm(raw) THEN 132 ELSE 0
        s2   == Max2(0, len - est * 2)
    IN IF len - 132 >= est /\ len - s1 >= est
       THEN Buf("u8", RunsTake(RunsDrop(raw.runs, s1), est))
       ELSE IF len - s2 >= est /\ 10 * Abs((len - s2) - est) < est
       THEN Buf("u8", RunsDrop(raw.runs, s2))
       ELSE IF 2 * Abs(len - est) < est
       THEN Buf("u8", raw.runs)
       ELSE NullBuf

NoMetadata == [has |-> FALSE, inst |-> 0]

DicomData(metadata, pixelData, dims) ==
    [metadata |-> metadata, pixelData |-> pixelData,
     rows |-> dims.rows, columns |-> dims.columns]

ParseDicomRobust(f) ==
    LET pixelData == IF f.pixelData.kind # "none" THEN f.pixelData
                     ELSE SizeFallback(f.rows, f.columns, f.raw)
        dims == IF pixelData.kind # "none"
                THEN InferDims(f.rows, f.columns, BLen(pixelData))
                ELSE Dims(f.rows, f.columns)
    IN DicomData(NoMetadata, pixelData, dims)

\* the value parseDicom of variant v resolves to for file f.  The decode loop
\* of strict and fixed leaves pixelData null: see HandleTag.
ParseDicom(v, f) ==
    IF v = "robust" THEN ParseDicomRobust(f)
    ELSE DicomData([has |-> f.hasInst, inst |-> f.inst], NullBuf,
                   IF v = "strict"
                   THEN EstimateDimsStrict(f.rows, f.columns, NullBuf)
                   ELSE EstimateDimsFixed(f.rows, f.columns, NullBuf))

----------------------------------------------------------------------------
(* processDicomFolder: the per-file loop *)

Slice(data, rows, columns, instanceNumber, fileName, src) ==
    [data |-> data, rows |-> rows, columns |-> columns,
     instanceNumber |-> instanceNumber, fileName |-> fileName, src |-> src]

\* metadata['00200013'] || 0 (strict, fixed); slices.length (robust)
InstanceNumber(v, metadata, sl) ==
    IF v = "robust" THEN Len(sl)
    ELSE IF metadata.has THEN metadata.inst ELSE 0

\* new Uint8Array(expectedPixels) with set(pixelData): stored as 8-bit, zeros after
PaddedData(pixelData, expectedPixels) ==
    Buf("u8", RunsConv("u8", pixelData.runs) \o Fill(expectedPixels - BLen(pixelData), 0))

\* the data of the slice pushed for a parse result; NullBuf when it is dropped
SliceData(pixelData, expectedPixels) ==
    IF BLen(pixelData) = 0 THEN NullBuf
    ELSE IF BLen(pixelData) >= expectedPixels THEN BSlice0(pixelData, expectedPixels)
    ELSE IF BLen(pixelData) > MinSamples THEN PaddedData(pixelData, expectedPixels)
    ELSE NullBuf

\* variant of AfterParse: a failing file discards the slices collected so far
AfterParseAbort(v, sl, f, i) ==
    IF f.throws \/ BLen(ParseDicom(v, f).pixelData) = 0 THEN <<>>
    ELSE LET dicomData == ParseDicom(v, f)
             data == SliceData(dicomData.pixelData, dicomData.rows * dicomData.columns)
         IN IF data.kind = "none" THEN sl
            ELSE Append(sl, Slice(data, dicomData.rows, dicomData.columns,
                                  InstanceNumber(v, dicomData.metadata, sl), f.name, i))

\* `slices` after the first-pass loop body ran for file number i
AfterParse(v, sl, f, i) ==
    IF f.throws THEN sl
    ELSE LET dicomData == ParseDicom(v, f)
             data == SliceData(dicomData.pixelData, dicomData.rows * dicomData.columns)
         IN IF data.kind = "none" THEN sl
            ELSE Append(sl, Slice(data, dicomData.rows, dicomData.columns,
                                  InstanceNumber(v, dicomData.metadata, sl), f.name, i))

----------------------------------------------------------------------------
(* processDicomFolder: the recovery pass run when the first pass left       *)
(* `slices` empty (fixed: raw scan for the pixel-data tag; robust: the file *)
(* taken as a raw image of a common size)                                   *)

\* fixed: the slice pushed for the first tag occurrence the scan can extract
AfterRecoverFixed(sl, f, i) ==
    IF f.throws \/ ~f.rec.found \/ BLen(f.rec.pixelData) <= MinSamples THEN sl
    ELSE LET expectedPixels == f.rec.rows * f.rec.columns
             sliceData == IF BLen(f.rec.pixelData) >= expectedPixels
                          THEN BSlice0(f.rec.pixelData, expectedPixels)
                          ELSE PaddedData(f.rec.pixelData, expectedPixels)
         IN Append(sl, Slice(sliceData, f.rec.rows, f.rec.columns, Len(sl), f.name, i))

\* robust: the {w, h} list of the last-resort pass, in order
commonDims == << <<512, 512>>, <<256, 256>>, <<1024, 1024>>, <<512, 256>> >>

AfterRecoverRobust(sl, f, i) ==
    LET fits == {k \in 1..Len(commonDims) :
                    BLen(f.raw) >= commonDims[k][1] * commonDims[k][2]}
    IN IF f.throws \/ fits = {} THEN sl
       ELSE LET dim == commonDims[SetMin(fits)] IN
            Append(sl, Slice(BSlice0(f.raw, dim[1] * dim[2]), dim[2], dim[1],
                             Len(sl), f.name, i))

AfterRecover(v, sl, f, i) ==
    IF v = "fixed" THEN AfterRecoverFixed(sl, f, i) ELSE AfterRecoverRobust(sl, f, i)

\* the variants that have a recovery pass
HasRecovery(v) == v \in {"fixed", "robust"}

----------------------------------------------------------------------------
(* processDicomFolder: sort, assembly, normalization *)

\* String.prototype.localeCompare on names of lower-case letters
RECURSIVE LocaleCompare(_, _)
LocaleCompare(a, b) ==
    IF a = <<>> /\ b = <<>> THEN 0
    ELSE IF a = <<>> THEN -1
    ELSE IF b = <<>> THEN 1
    ELSE IF Head(a) < Head(b) THEN -1
    ELSE IF Head(a) > Head(b) THEN 1
    ELSE LocaleCompare(Tail(a), Tail(b))

\* the sort comparator.  Every push sets instanceNumber to a number
\* (`... || 0`, or slices.length), so the `!== undefined` test of the strict
\* and fixed comparators always takes the numeric branch.
Compare(v, a, b) == a.instanceNumber - b.instanceNumber

\* Array.prototype.sort is stable: x goes after every element not greater
SortInsert(v, sorted, x) ==
    LET k == Cardinality({j \in 1..Len(sorted) : Compare(v, sorted[j], x) <= 0})
    IN SubSeq(sorted, 1, k) \o <<x>> \o SubSeq(sorted, k + 1, Len(sorted))

RECURSIVE SortSlices(_, _)
SortSlices(v, sl) ==
    IF sl = <<>> THEN <<>>
    ELSE SortInsert(v, SortSlices(v, SubSeq(sl, 1, Len(sl) - 1)), sl[Len(sl)])

is16Bit(v, sl) ==
    \E z \in 1..Len(sl) :
        sl[z].data.kind = "u16" \/ (v # "robust" /\ sl[z].data.kind = "i16")

\* the typed array `volumeData` is allocated as
VolumeKind(v, sl) ==
    IF ~is16Bit(v, sl) THEN "u8"
    ELSE IF v # "robust" /\ (\E z \in 1..Len(sl) : sl[z].data.kind = "i16") THEN "i16"
    ELSE "u16"

\* variant of VolumeSize: every slice counted with its own rows * columns
RECURSIVE VolumeSizeOwnDims(_)
VolumeSizeOwnDims(sl) ==
    IF sl = <<>> THEN 0
    ELSE Head(sl).rows * Head(sl).columns + VolumeSizeOwnDims(Tail(sl))

\* rows * cols * depth with rows, cols of the first sorted slice
VolumeSize(sl) == sl[1].rows * sl[1].columns * Len(sl)

\* what the fill loop leaves in slab z: the first sliceSize samples of the
\* slice, converted by the store, zeros where the slice has none
Slab(kind, sliceData, sliceSize) ==
    LET n == Min2(sliceSize, BLen(sliceData)) IN
    RunsConv(kind, RunsTake(sliceData.runs, n)) \o Fill(sliceSize - n, 0)

RECURSIVE Slabs(_, _, _)
Slabs(kind, sl, sliceSize) ==
    IF sl = <<>> THEN <<>>
    ELSE Slab(kind, Head(sl).data, sliceSize) \o Slabs(kind, Tail(sl), sliceSize)

\* new TypedArray(volumeSize) after the fill loop (stores past the end are dropped)
FillVolume(v, sl) ==
    LET kind == VolumeKind(v, sl)
        written == Slabs(kind, sl, sl[1].rows * sl[1].columns)
    IN Buf(kind, RunsTake(written \o Fill(VolumeSize(sl) - RunsLen(written), 0),
                          VolumeSize(sl)))

\* variant of NormalizeValue: Math.floor in place of Math.round
NormalizeValueFloor(value, minVal, range) == ((value - minVal) * 255) \div range

\* Math.round(((value - minVal) / range) * 255), in exact arithmetic
NormalizeValue(value, minVal, range) == ((value - minVal) * 510 + range) \div (2 * range)

\* maxVal - minVal || 1
Range(minVal, maxVal) == IF maxVal - minVal = 0 THEN 1 ELSE maxVal - minVal

\* the 16-bit volume normalized into a Uint8Array of the same length
Normalize(vd) ==
    IF vd.runs = <<>> THEN Buf("u8", <<>>)
    ELSE LET minVal == SetMin(RunsValues(vd.runs))
             maxVal == SetMax(RunsValues(vd.runs))
         IN Buf("u8", [j \in 1..Len(vd.runs) |->
                        Run(vd.runs[j].n,
                            NormalizeValue(vd.runs[j].v, minVal, Range(minVal, maxVal)))])

NoVolume == [data |-> NullBuf, dimensions |-> <<0, 0, 0>>]

\* variant of EmptyBatch: `slices.length <= 1`
EmptyBatchOffByOne(sl) == Len(sl) <= 1

\* `slices.length === 0`: the batch is empty
EmptyBatch(sl) == Len(sl) = 0

----------------------------------------------------------------------------
(* processDicomFolder as a state machine: one step per awaited file, one    *)
(* for the synchronous tail                                                 *)

\* the decoder at rest
EmptyLocals == [metadata |-> <<>>, pixelData |-> NullBuf, rows |-> 0, columns |-> 0,
                bitsAllocated |-> 8, pixelRepresentation |-> 0]

DecoderIdle ==
    /\ dvariant = "strict"
    /\ elems = <<>>
    /\ buf = <<>>
    /\ dpc = "idle"
    /\ offset = 0
    /\ locals = EmptyLocals
    /\ visited = <<>>
    /\ abandoned = 0
    /\ caught = 0
    /\ raised = FALSE

\* the robust parser at rest
NoInfo == [found |-> FALSE, offset |-> 0, length |-> 0, vr |-> <<>>]

EmptyHeur == [pixelDataInfo |-> NoInfo, pixelData |-> NullBuf,
              rows |-> DefaultDim, columns |-> DefaultDim]

HeurIdle ==
    /\ arrayBuffer = Buf("u8", <<>>)
    /\ hpc = "idle"
    /\ heur = EmptyHeur
    /\ rangeError = FALSE

\* no fragment is being shaded
NoRay == [dir |-> <<0, 0, 0>>, den |-> 1]

MarchIdle ==
    /\ ray = NoRay
    /\ mpc = "idle"
    /\ steps = 0
    /\ currentPosition = <<0, 0, 0>>
    /\ accumulatedAlpha = 0
    /\ density = [from |-> 0, to |-> 0, alpha |-> 0]
    /\ composited = {}

FolderIdle ==
    /\ variant = "strict"
    /\ files = <<>>
    /\ fpc = "idle"
    /\ fidx = 0
    /\ slices = <<>>
    /\ accepted = {}
    /\ volumeData = NullBuf
    /\ result = NoVolume
    /\ outcome = "pending"
    /\ recovered = FALSE

\* the renderer at rest: the fields as init() leaves them
NaN == 0 - 1

NoVolumeData == [data |-> [kind |-> "none", length |-> 0], dimensions |-> <<0, 0, 0>>,
                 loaded |-> FALSE]

NoLayout == [defined |-> FALSE, width |-> 0, height |-> 0, slices |-> 0,
             volumeSize |-> <<0, 0, 0>>]

NoGrid == [slicesPerRow |-> 0, rows |-> 0]

\* the camera and volume properties of init().  Angles are kept in hundredths
\* of a radian, zoom in thousandths and opacity in tenths, so that every value
\* the handlers below produce is an integer.
InitParams ==
    [rotationX |-> 0, rotationY |-> 0, zoom |-> 1000, threshold |-> 100, opacity |-> 8,
     windowLevel |-> 128, windowWidth |-> 256]

InitMouse == [isDragging |-> FALSE, lastMouseX |-> 0, lastMouseY |-> 0]

\* the canvas as the page creates it
InitCanvas == [width |-> 4, height |-> 2]

NoDraw ==
    [called |-> FALSE, run |-> 0, texture |-> <<>>, textureWidth |-> 0, textureHeight |-> 0,
     slices |-> 0, volumeSize |-> <<0, 0, 0>>, threshold |-> 0, opacity |-> 0,
     windowLevel |-> 0, windowWidth |-> 0, u_zoom |-> 0, u_rotationX |-> 0,
     u_rotationY |-> 0, composited |-> {}, zeroDivisors |-> {}]

RendererFresh ==
    /\ thisVolumeData = NoVolumeData
    /\ volumeTexture = FALSE
    /\ textureData = <<>>
    /\ textureLayout = NoLayout
    /\ grid = NoGrid
    /\ adjusted = FALSE
    /\ params = InitParams
    /\ mouse = InitMouse
    /\ canvas = InitCanvas
    /\ drawn = NoDraw
    /\ loadFailed = FALSE

RendererIdle == rpc = "idle" /\ RendererFresh /\ offered = {}

FolderInit ==
    /\ variant \in Variants
    /\ files \in UNION {[1..n -> FileSet] : n \in 1..MaxFiles}
    /\ fpc = "parse"
    /\ fidx = 1
    /\ slices = <<>>
    /\ accepted = {}
    /\ volumeData = NullBuf
    /\ result = NoVolume
    /\ outcome = "pending"
    /\ recovered = FALSE
    /\ DecoderIdle
    /\ HeurIdle
    /\ MarchIdle
    /\ RendererIdle

\* one iteration of `for (const file of files)` of the first pass
ParseFile ==
    /\ fpc = "parse"
    /\ fidx <= Len(files)
    /\ slices' = AfterParse(variant, slices, files[fidx], fidx)
    /\ accepted' = IF Len(slices') > Len(slices) THEN accepted \cup {fidx} ELSE accepted
    /\ fidx' = fidx + 1
    /\ UNCHANGED <<variant, files, fpc, volumeData, result, outcome, recovered>>
    /\ UNCHANGED <<decoderVars, heurVars, marchVars, rendererVars>>

\* first pass over with no slice: the recovery loop is entered
EnterRecovery ==
    /\ fpc = "parse"
    /\ fidx > Len(files)
    /\ HasRecovery(variant)
    /\ EmptyBatch(slices)
    /\ fpc' = "recover"
    /\ fidx' = 1
    /\ recovered' = TRUE
    /\ UNCHANGED <<variant, files, slices, accepted, volumeData, result, outcome>>
    /\ UNCHANGED <<decoderVars, heurVars, marchVars, rendererVars>>

\* one iteration of the recovery loop
RecoverFile ==
    /\ fpc = "recover"
    /\ fidx <= Len(files)
    /\ slices' = AfterRecover(variant, slices, files[fidx], fidx)
    /\ accepted' = IF Len(slices') > Len(slices) THEN accepted \cup {fidx} ELSE accepted
    /\ fidx' = fidx + 1
    /\ UNCHANGED <<variant, files, fpc, volumeData, result, outcome, recovered>>
    /\ UNCHANGED <<decoderVars, heurVars, marchVars, rendererVars>>

\* variant of LoopsOver: the loops are taken to be over one file early
LoopsOverEarly ==
    /\ fidx > Len(files) - 1
    /\ \/ fpc = "recover"
       \/ fpc = "parse" /\ ~(HasRecovery(variant) /\ EmptyBatch(slices))

LoopsOver ==
    /\ fidx > Len(files)
    /\ \/ fpc = "recover"
       \/ fpc = "parse" /\ ~(HasRecovery(variant) /\ EmptyBatch(slices))

\* `throw new Error('No valid DICOM files found ...')`
ThrowEmpty ==
    /\ LoopsOver
    /\ EmptyBatch(slices)
    /\ fpc' = "done"
    /\ outcome' = "thrown"
    /\ UNCHANGED <<variant, files, fidx, slices, accepted, volumeData, result, recovered>>
    /\ UNCHANGED <<decoderVars, heurVars, marchVars, rendererVars>>

\* sort, assemble, normalize, return
Assemble ==
    /\ LoopsOver
    /\ ~EmptyBatch(slices)
    /\ LET sorted == SortSlices(variant, slices)
           filled == FillVolume(variant, sorted)
       IN /\ slices' = sorted
          /\ volumeData' = filled
          /\ result' = [data |-> IF is16Bit(variant, sorted) THEN Normalize(filled) ELSE filled,
                        dimensions |-> <<sorted[1].columns, sorted[1].rows, Len(sorted)>>]
    /\ fpc' = "done"
    /\ outcome' = "returned"
    /\ UNCHANGED <<variant, files, fidx, accepted, recovered>>
    /\ UNCHANGED <<decoderVars, heurVars, marchVars, rendererVars>>

Init == FolderInit

Next == ParseFile \/ EnterRecovery \/ RecoverFile \/ ThrowEmpty \/ Assemble

Spec == Init /\ [][Next]_vars

----------------------------------------------------------------------------
(* Properties of processDicomFolder *)

Returned == outcome = "returned"

Depth == result.dimensions[3]

\* the indices of the files the first pass accepts, judged file by file
FirstPassAccepts == {i \in 1..Len(files) : AfterParse(variant, <<>>, files[i], i) # <<>>}

\* the indices of the files the recovery pass accepts, judged file by file
RecoveryAccepts ==
    IF HasRecovery(variant)
    THEN {i \in 1..Len(files) : AfterRecover(variant, <<>>, files[i], i) # <<>>}
    ELSE {}

\* indices at which a run of either buffer starts: two buffers of equal
\* length that agree there agree on every sample
RECURSIVE RunStarts(_, _)
RunStarts(rs, at) ==
    IF rs = <<>> THEN {} ELSE {at} \cup RunStarts(Tail(rs), at + Head(rs).n)

Probes(a, b) == RunStarts(a.runs, 0) \cup RunStarts(b.runs, 0)

\* C1: a returned volume holds exactly cols*rows*depth samples, rows and cols
\* being those of the first sorted slice and depth the number of accepted
\* slices, with and without the 16-bit normalization.
C1_VolumeLength ==
    Returned =>
        /\ BLen(result.data) = result.dimensions[1] * result.dimensions[2] * Depth
        /\ result.dimensions[1] = slices[1].columns
        /\ result.dimensions[2] = slices[1].rows
        /\ Depth = Cardinality(accepted)
        /\ result.data.kind = "u8"

\* a normalized volume of slices of differing rows*columns was returned
C1_Witness ==
    /\ Returned
    /\ is16Bit(variant, slices)
    /\ Depth >= 2
    /\ \E z \in 1..Len(slices) :
          slices[z].rows * slices[z].columns # slices[1].rows * slices[1].columns

\* C2 (as claimed): when every accepted file carries an instance index, the
\* slices of the volume are in ascending order of it, equal indices in the
\* order the files were supplied.
C2_AscendingInstanceIndex ==
    (Returned /\ \A z \in 1..Len(slices) : files[slices[z].src].hasInst) =>
        \A y, z \in 1..Len(slices) :
            y < z =>
                \/ files[slices[y].src].inst < files[slices[z].src].inst
                \/ /\ files[slices[y].src].inst = files[slices[z].src].inst
                   /\ slices[y].src < slices[z].src

\* C3 (as claimed): when an accepted record has no instance index, the slices
\* are ordered by file name, equal names in the order the files were supplied.
C3_OrderedByFileName ==
    (Returned /\ \E z \in 1..Len(slices) : ~files[slices[z].src].hasInst) =>
        \A y, z \in 1..Len(slices) :
            y < z =>
                \/ LocaleCompare(slices[y].fileName, slices[z].fileName) < 0
                \/ /\ LocaleCompare(slices[y].fileName, slices[z].fileName) = 0
                   /\ slices[y].src < slices[z].src

\* C6: a 16-bit field is normalized sample by sample to
\* round((v - min) / (max - min) * 255), min and max being those of the whole
\* assembled field, the divisor 1 when they are equal; every output is in
\* 0..255.
C6_GlobalNormalization ==
    (Returned /\ is16Bit(variant, slices)) =>
        LET minVal == SetMin(RunsValues(volumeData.runs))
            maxVal == SetMax(RunsValues(volumeData.runs))
            divisor == IF maxVal = minVal THEN 1 ELSE maxVal - minVal
        IN /\ BLen(result.data) = BLen(volumeData)
           /\ \A i \in Probes(volumeData, result.data) :
                 /\ 2 * divisor * BAt(result.data, i)
                        <= 510 * (BAt(volumeData, i) - minVal) + divisor
                 /\ 2 * divisor * (BAt(result.data, i) + 1)
                        > 510 * (BAt(volumeData, i) - minVal) + divisor
                 /\ BAt(result.data, i) \in 0..255

\* a field of two slices with min 100 and max 1100, the extremes in different
\* slices, was normalized, 600 becoming 128
C6_Witness ==
    /\ Returned
    /\ is16Bit(variant, slices)
    /\ Len(slices) = 2
    /\ SetMin(RunsValues(volumeData.runs)) = 100
    /\ SetMax(RunsValues(volumeData.runs)) = 1100
    /\ \E i \in Probes(volumeData, result.data) :
          BAt(volumeData, i) = 600 /\ BAt(result.data, i) = 128

\* C7: the call throws, returning no volume, exactly when no file of the
\* batch is accepted by any pass the variant has; otherwise it returns a
\* volume of depth >= 1.
C7_EmptyBatchThrows ==
    fpc = "done" =>
        /\ outcome \in {"thrown", "returned"}
        /\ outcome = "thrown" <=> (FirstPassAccepts = {} /\ RecoveryAccepts = {})
        /\ outcome = "thrown" => result = NoVolume
        /\ Returned => Depth >= 1 /\ result # NoVolume

\* the call threw after the recovery pass of the variant found nothing
C7_Witness ==
    /\ fpc = "done"
    /\ outcome = "thrown"
    /\ recovered
    /\ Len(files) >= 2

\* C8: every file contributes at most one slice; a file that throws or has
\* no pixel data is dropped while the slices of the files the pass accepts
\* are all assembled; the depth never exceeds the number of files.
C8_ZeroOrOneSlicePerFile ==
    /\ \A y, z \in 1..Len(slices) : y # z => slices[y].src # slices[z].src
    /\ Len(slices) <= Len(files)
    /\ Returned =>
          /\ Depth <= Len(files)
          /\ {slices[z].src : z \in 1..Len(slices)} =
                 IF FirstPassAccepts # {} THEN FirstPassAccepts ELSE RecoveryAccepts

\* a volume was returned from a batch holding an unreadable file, a file
\* without pixel data and an accepted file supplied after them
C8_Witness ==
    /\ Returned
    /\ \E i, j, k \in 1..Len(files) :
          /\ files[i].throws
          /\ ~files[j].throws /\ BLen(ParseDicom(variant, files[j]).pixelData) = 0
          /\ i < k /\ j < k /\ k \in accepted

----------------------------------------------------------------------------
(* parseDicom, strict and fixed: the tag-stream decode loop on bytes.       *)
(* A buffer is a sequence of bytes, offset o being element o + 1.  Byte     *)
(* values are kept below 128 where they can become the top byte of a        *)
(* 32-bit read.                                                             *)

U16(b, o) == b[o + 1] + 256 * b[o + 2]
U32(b, o) == b[o + 1] + 256 * b[o + 2] + 65536 * b[o + 3] + 16777216 * b[o + 4]

\* value representations as their two characters
VR_OB == <<79, 66>>
VR_OW == <<79, 87>>
VR_OF == <<79, 70>>
VR_SQ == <<83, 81>>
VR_UT == <<85, 84>>
VR_UN == <<85, 78>>
VR_US == <<85, 83>>
VR_IS == <<73, 83>>
VR_UI == <<85, 73>>
VR_PN == <<80, 78>>
VR_DS == <<68, 83>>
VR_CS == <<67, 83>>

\* ['OB', 'OW', 'OF', 'SQ', 'UT', 'UN']
LongVRs == {VR_OB, VR_OW, VR_OF, VR_SQ, VR_UT, VR_UN}

\* tags as <<group, element>>
TagPixelData == <<32736, 16>>
TagRows == <<40, 16>>
TagColumns == <<40, 17>>
TagBitsAllocated == <<40, 256>>
TagPixelRepresentation == <<40, 259>>
TagWindowCenter == <<40, 4176>>
TagWindowWidth == <<40, 4177>>
TagInstanceNumber == <<32, 19>>
TagSOPInstanceUID == <<8, 24>>
TagPatientName == <<16, 16>>
TagModality == <<8, 96>>

\* bytes of the first 132 bytes of a file with preamble: zeros, then 'DICM'
Preamble == [k \in 1..128 |-> 0] \o <<68, 73, 67, 77>>

\* offset of the first tag
StartOffset(b) ==
    IF Len(b) > 132 /\ SubSeq(b, 129, 132) = <<68, 73, 67, 77>> THEN 132 ELSE 0

\* `while (offset < arrayBuffer.byteLength - 8)`
LoopCondition(b, off) == off < Len(b) - 8

\* length and value offset as the loop decodes them at `off`;
\* ok = FALSE where the code breaks out ("Not enough bytes left")
Header(v, b, off) ==
    LET vr == <<b[off + 5], b[off + 6]>>
        o1 == off + 6
        peek == o1 + 4 <= Len(b)
        o2 == IF peek /\ U32(b, o1) # 0 THEN o1 + 4 ELSE o1
    IN IF vr \in LongVRs
       THEN IF (v = "fixed" /\ ~peek) \/ o2 + 4 > Len(b)
            THEN [ok |-> FALSE, vr |-> vr, length |-> 0, valueOffset |-> o2]
            ELSE [ok |-> TRUE, vr |-> vr, length |-> U32(b, o2), valueOffset |-> o2 + 4]
       ELSE IF o1 + 2 > Len(b)
            THEN [ok |-> FALSE, vr |-> vr, length |-> 0, valueOffset |-> o1]
            ELSE [ok |-> TRUE, vr |-> vr, length |-> U16(b, o1), valueOffset |-> o1 + 2]

\* `valueOffset + length > arrayBuffer.byteLength`
Overruns(b, h) == h.valueOffset + h.length > Len(b)

\* what the overrun branch does: "break" (strict) or "continue" at the value
\* offset (fixed)
OverrunAction(v) == IF v = "strict" THEN "break" ELSE "continue"

\* the offset the catch branch resumes at
CatchSkip(v) == IF v = "strict" THEN 4 ELSE 16

\* the loop body runs inside try { } catch
TryCatches == TRUE

\* samples of a typed array over bytes b[from .. from + n - 1]
Bytes8(b, from, n) == [k \in 1..n |-> Run(1, b[from + k])]
Words16(b, from, n, kind) ==
    [k \in 1..(n \div 2) |-> Run(1, ToKind(kind, U16(b, from + 2 * (k - 1))))]

\* the string read from a value: its first min(length, 100) bytes, NULs dropped
ValueString(b, h) ==
    SelectSeq(SubSeq(b, h.valueOffset + 1, h.valueOffset + Min2(h.length, 100)),
              LAMBDA c : c # 0)

IsDigit(c) == c \in 48..57

RECURSIVE DigitsValue(_, _)
DigitsValue(str, acc) ==
    IF str = <<>> \/ ~IsDigit(Head(str)) THEN acc
    ELSE DigitsValue(Tail(str), acc * 10 + (Head(str) - 48))

\* isNaN(parseInt(str, 10)) ? 0 : parseInt(str, 10)
RECURSIVE ParseIntOr0(_)
ParseIntOr0(str) ==
    IF str = <<>> THEN 0
    ELSE IF Head(str) \in {32, 9, 10, 13} THEN ParseIntOr0(Tail(str))
    ELSE IF Head(str) = 45 THEN -DigitsValue(Tail(str), 0)
    ELSE IF Head(str) = 43 THEN DigitsValue(Tail(str), 0)
    ELSE DigitsValue(str, 0)

\* one hexadecimal digit as Number.prototype.toString(16) writes it
HexDigit(d) == IF d < 10 THEN 48 + d ELSE 97 + (d - 10)

\* n.toString(16).padStart(4, '0') for n in 0..65535
Hex4(n) ==
    <<HexDigit(n \div 4096), HexDigit((n \div 256) % 16),
      HexDigit((n \div 16) % 16), HexDigit(n % 16)>>

\* `tag`: group + element as text
TagText(b, off) == Hex4(U16(b, off)) \o Hex4(U16(b, off + 2))

\* the string literals the tag is compared with
LitPixelData == <<55, 70, 69, 48, 48, 48, 49, 48>>            \* '7FE00010'
LitRows == <<48, 48, 50, 56, 48, 48, 49, 48>>                 \* '00280010'
LitColumns == <<48, 48, 50, 56, 48, 48, 49, 49>>              \* '00280011'
LitBitsAllocated == <<48, 48, 50, 56, 48, 49, 48, 48>>        \* '00280100'
LitPixelRepresentation == <<48, 48, 50, 56, 48, 49, 48, 51>>  \* '00280103'
LitWindowCenter == <<48, 48, 50, 56, 49, 48, 53, 48>>         \* '00281050'
LitWindowWidth == <<48, 48, 50, 56, 49, 48, 53, 49>>          \* '00281051'
LitInstanceNumber == <<48, 48, 50, 48, 48, 48, 49, 51>>       \* '00200013'

\* view.getInt16 / view.getInt32 (little-endian)
I16(b, o) == ToKind("i16", U16(b, o))
I32(b, o) == U16(b, o) + 65536 * ToKind("i16", U16(b, o + 2))

\* str.split('\\'): the tokens between backslashes
RECURSIVE SplitBackslash(_, _)
SplitBackslash(str, cur) ==
    IF str = <<>> THEN <<cur>>
    ELSE IF Head(str) = 92 THEN <<cur>> \o SplitBackslash(Tail(str), <<>>)
    ELSE SplitBackslash(Tail(str), Append(cur, Head(str)))

IsSpace(c) == c \in {32, 9, 10, 13}

RECURSIVE TrimLeft(_)
TrimLeft(str) == IF str # <<>> /\ IsSpace(Head(str)) THEN TrimLeft(Tail(str)) ELSE str

RECURSIVE TrimRight(_)
TrimRight(str) ==
    IF str # <<>> /\ IsSpace(str[Len(str)]) THEN TrimRight(SubSeq(str, 1, Len(str) - 1))
    ELSE str

\* Number(token) for tokens of spaces, a sign and decimal digits: the
\* whole trimmed token must be a numeral; the empty token converts to 0
ToNumber(token) ==
    LET t == TrimRight(TrimLeft(token))
        digits == IF t # <<>> /\ Head(t) \in {43, 45} THEN Tail(t) ELSE t
    IN IF t = <<>> THEN [nan |-> FALSE, val |-> 0]
       ELSE IF digits = <<>> \/ \E k \in 1..Len(digits) : ~IsDigit(digits[k])
       THEN [nan |-> TRUE, val |-> 0]
       ELSE [nan |-> FALSE,
             val |-> IF Head(t) = 45 THEN -DigitsValue(digits, 0) ELSE DigitsValue(digits, 0)]

\* str.split('\\').map(Number).filter(n => !isNaN(n)), then nums[0] or 0
FirstNumberOr0(str) ==
    LET tokens == SplitBackslash(str, <<>>)
        nums == SelectSeq([k \in 1..Len(tokens) |-> ToNumber(tokens[k])],
                          LAMBDA n : ~n.nan)
    IN IF Len(nums) > 0 THEN nums[1].val ELSE 0

PutMeta(md, key, val) == [k \in DOMAIN md \cup {key} |-> IF k = key THEN val ELSE md[k]]

Fields(md, px, r, c, ba, pr) ==
    [metadata |-> md, pixelData |-> px, rows |-> r, columns |-> c,
     bitsAllocated |-> ba, pixelRepresentation |-> pr]

\* the per-tag branch of the loop body for a header h that is in bounds:
\* threw = TRUE where a DataView read or a typed-array construction throws.
HandleTag(b, off, h, f) ==
    LET tag == TagText(b, off)
        short == h.valueOffset + 2 > Len(b)
        val16 == IF short THEN 0 ELSE U16(b, h.valueOffset)
    IN IF tag = LitPixelData
       THEN IF h.vr \notin {VR_OW, VR_OB} THEN [threw |-> FALSE, f |-> f]
            ELSE IF f.bitsAllocated = 16
            THEN IF h.length % 2 = 1 THEN [threw |-> TRUE, f |-> f]
                 ELSE [threw |-> FALSE,
                       f |-> [f EXCEPT !.pixelData =
                                LET kind == IF f.pixelRepresentation = 1 THEN "i16" ELSE "u16"
                                IN Buf(kind, Words16(b, h.valueOffset, h.length, kind))]]
            ELSE [threw |-> FALSE,
                  f |-> [f EXCEPT !.pixelData = Buf("u8", Bytes8(b, h.valueOffset, h.length))]]
       ELSE IF tag \in {LitRows, LitColumns, LitBitsAllocated, LitPixelRepresentation}
       THEN IF short THEN [threw |-> TRUE, f |-> f]
            ELSE [threw |-> FALSE,
                  f |-> [f EXCEPT !.metadata = PutMeta(@, tag, val16),
                                  !.rows = IF tag = LitRows THEN val16 ELSE @,
                                  !.columns = IF tag = LitColumns THEN val16 ELSE @,
                                  !.bitsAllocated = IF tag = LitBitsAllocated THEN val16 ELSE @,
                                  !.pixelRepresentation =
                                      IF tag = LitPixelRepresentation THEN val16 ELSE @]]
       ELSE IF tag = LitWindowCenter
       THEN [threw |-> FALSE,
             f |-> [f EXCEPT !.metadata =
                      PutMeta(@, tag,
                              IF h.length = 2 THEN I16(b, h.valueOffset)
                              ELSE IF h.length = 4 THEN I32(b, h.valueOffset)
                              ELSE FirstNumberOr0(ValueString(b, h)))]]
       ELSE IF tag = LitWindowWidth
       THEN [threw |-> FALSE,
             f |-> [f EXCEPT !.metadata =
                      PutMeta(@, tag,
                              IF h.length = 2 THEN U16(b, h.valueOffset)
                              ELSE IF h.length = 4 THEN U32(b, h.valueOffset)
                              ELSE FirstNumberOr0(ValueString(b, h)))]]
       ELSE IF tag = LitInstanceNumber
       THEN [threw |-> FALSE,
             f |-> [f EXCEPT !.metadata =
                      PutMeta(@, tag,
                              IF h.length = 2 THEN U16(b, h.valueOffset)
                              ELSE IF h.length = 4 THEN U32(b, h.valueOffset)
                              ELSE ParseIntOr0(ValueString(b, h)))]]
       ELSE [threw |-> FALSE, f |-> f]

\* variant of NextOffset: back to the start of the element's header
NextOffsetRewind(h) == h.valueOffset - 8

\* "Move to next tag" and "Align to even boundary"
NextOffset(h) ==
    h.valueOffset + h.length
        + (IF h.length % 2 = 1 /\ h.vr \notin {VR_SQ, VR_UT} THEN 1 ELSE 0)

----------------------------------------------------------------------------
(* Encoded element streams: the buffers parseDicom is run on *)

MaxElems == 3

LE16(n) == <<n % 256, n \div 256>>
LE32(n) == LE16(n % 65536) \o LE16(n \div 65536)

\* explicit-VR little-endian encoding of one element: tag, VR, then a 2-byte
\* length, or two reserved zero bytes and a 4-byte length, then `value`
ElemBytes(tag, vr, declared, value) ==
    LE16(tag[1]) \o LE16(tag[2]) \o vr
        \o (IF vr \in LongVRs THEN <<0, 0>> \o LE32(declared) ELSE LE16(declared))
        \o value

Elem(tag, vr, declared, value) ==
    [tag |-> tag, vr |-> vr, declared |-> declared, value |-> value,
     wellFormed |-> (declared = Len(value) /\ Len(value) % 2 = 0),
     bytes |-> ElemBytes(tag, vr, declared, value)]

\* a cut-off element: the given bytes and nothing more
CutElem(tag, vr, rest) ==
    [tag |-> tag, vr |-> vr, declared |-> 0, value |-> <<>>, wellFormed |-> FALSE,
     bytes |-> LE16(tag[1]) \o LE16(tag[2]) \o vr \o rest]

ElemSet ==
    { Elem(TagRows, VR_US, 2, <<10, 0>>),
      Elem(TagBitsAllocated, VR_US, 2, <<16, 0>>),
      Elem(TagInstanceNumber, VR_IS, 2, <<49, 50>>),
      Elem(TagPixelData, VR_OW, 4, <<1, 0, 2, 0>>),
      CutElem(TagPixelData, VR_OW, <<1, 0, 0, 0, 4, 0, 0, 0, 1, 0, 2, 0>>),
      Elem(TagWindowCenter, VR_DS, 6, <<120, 92, 45, 52, 48, 32>>),
      Elem(TagWindowWidth, VR_DS, 4, <<56, 48, 92, 57>>),
      Elem(TagSOPInstanceUID, VR_UI, 0, <<>>),
      Elem(TagPatientName, VR_PN, 1, <<65, 0>>),
      Elem(TagModality, VR_CS, 10000, <<67, 84>>),
      CutElem(TagRows, VR_UN, <<0, 0, 0, 0>>),
      CutElem(TagSOPInstanceUID, VR_OB, <<0, 0, 1, 0, 0>>) }

RECURSIVE StreamBytes(_)
StreamBytes(es) == IF es = <<>> THEN <<>> ELSE Head(es).bytes \o StreamBytes(Tail(es))

WellFormed(es) == \A k \in 1..Len(es) : es[k].wellFormed

Visit(tag, vr, valueOffset, length) ==
    [tag |-> tag, vr |-> vr, valueOffset |-> valueOffset, length |-> length]

\* the elements of a stream starting at offset `at`, as they are encoded
RECURSIVE Encoded(_, _)
Encoded(es, at) ==
    IF es = <<>> THEN <<>>
    ELSE <<Visit(Head(es).tag, Head(es).vr,
                 at + Len(Head(es).bytes) - Len(Head(es).value), Head(es).declared)>>
         \o Encoded(Tail(es), at + Len(Head(es).bytes))

----------------------------------------------------------------------------
(* parseDicom (strict, fixed) as a state machine: one step per iteration of *)
(* the tag loop, one for the code after the loop                            *)

DecoderInit ==
    /\ dvariant \in {"strict", "fixed"}
    /\ elems \in UNION {[1..n -> ElemSet] : n \in 0..MaxElems}
    /\ \E withPreamble \in BOOLEAN :
          buf = (IF withPreamble THEN Preamble ELSE <<>>) \o StreamBytes(elems)
    /\ dpc = "loop"
    /\ offset = StartOffset(buf)
    /\ locals = EmptyLocals
    /\ visited = <<>>
    /\ abandoned = 0
    /\ caught = 0
    /\ raised = FALSE
    /\ FolderIdle
    /\ HeurIdle
    /\ MarchIdle
    /\ RendererIdle

InLoop == dpc = "loop" /\ LoopCondition(buf, offset)

\* "Not enough bytes left": break
BreakShort ==
    /\ InLoop
    /\ ~Header(dvariant, buf, offset).ok
    /\ dpc' = "tail"
    /\ UNCHANGED <<dvariant, elems, buf, offset, locals, visited, abandoned, caught, raised>>
    /\ UNCHANGED <<folderVars, heurVars, marchVars, rendererVars>>

\* the declared length runs past the buffer end
AbandonElement ==
    /\ InLoop
    /\ LET h == Header(dvariant, buf, offset) IN
       /\ h.ok
       /\ Overruns(buf, h)
       /\ abandoned' = abandoned + 1
       /\ offset' = h.valueOffset
       /\ dpc' = IF OverrunAction(dvariant) = "break" THEN "tail" ELSE dpc
    /\ UNCHANGED <<dvariant, elems, buf, locals, visited, caught, raised>>
    /\ UNCHANGED <<folderVars, heurVars, marchVars, rendererVars>>

\* an element in bounds is handled and the offset moved past its value
DecodeElement ==
    /\ InLoop
    /\ LET h == Header(dvariant, buf, offset) IN
       /\ h.ok
       /\ ~Overruns(buf, h)
       /\ ~HandleTag(buf, offset, h, locals).threw
       /\ locals' = HandleTag(buf, offset, h, locals).f
       /\ visited' = Append(visited, Visit(<<U16(buf, offset), U16(buf, offset + 2)>>,
                                           h.vr, h.valueOffset, h.length))
       /\ offset' = NextOffset(h)
    /\ UNCHANGED <<dvariant, elems, buf, dpc, abandoned, caught, raised>>
    /\ UNCHANGED <<folderVars, heurVars, marchVars, rendererVars>>

\* handling the element throws: the catch branch skips ahead
CatchError ==
    /\ InLoop
    /\ LET h == Header(dvariant, buf, offset) IN
       /\ h.ok
       /\ ~Overruns(buf, h)
       /\ HandleTag(buf, offset, h, locals).threw
       /\ visited' = Append(visited, Visit(<<U16(buf, offset), U16(buf, offset + 2)>>,
                                           h.vr, h.valueOffset, h.length))
       /\ IF TryCatches
          THEN /\ caught' = caught + 1
               /\ offset' = h.valueOffset + CatchSkip(dvariant)
               /\ dpc' = IF offset' >= Len(buf) THEN "tail" ELSE dpc
               /\ raised' = raised
          ELSE /\ raised' = TRUE
               /\ dpc' = "done"
               /\ UNCHANGED <<caught, offset>>
    /\ UNCHANGED <<dvariant, elems, buf, locals, abandoned>>
    /\ UNCHANGED <<folderVars, heurVars, marchVars, rendererVars>>

\* after the loop: missing dimensions are estimated and the result returned
ReturnResult ==
    /\ \/ dpc = "tail"
       \/ dpc = "loop" /\ ~LoopCondition(buf, offset)
    /\ LET dims == IF dvariant = "strict"
                   THEN EstimateDimsStrict(locals.rows, locals.columns, locals.pixelData)
                   ELSE EstimateDimsFixed(locals.rows, locals.columns, locals.pixelData)
       IN locals' = [locals EXCEPT !.rows = dims.rows, !.columns = dims.columns]
    /\ dpc' = "done"
    /\ UNCHANGED <<dvariant, elems, buf, offset, visited, abandoned, caught, raised>>
    /\ UNCHANGED <<folderVars, heurVars, marchVars, rendererVars>>

DecoderNext == BreakShort \/ AbandonElement \/ DecodeElement \/ CatchError \/ ReturnResult

DecoderSpec == DecoderInit /\ [][DecoderNext]_vars

----------------------------------------------------------------------------
(* parseDicom (robust) on the bytes of a file: findPixelData, the typed     *)
(* view of the located bytes, findImageDimensions, the size fallbacks and   *)
(* the dimension inference, one step each                                   *)

MaxTail == 6

\* a DataView read of `width` bytes at offset o raises a RangeError
OutOfBounds(b, o, width) == o < 0 \/ o + width > BLen(b)

\* view.getUint16(o, true), view.getUint32(o, true)
getUint16(b, o) == BAt(b, o) + 256 * BAt(b, o + 1)
getUint32(b, o) == getUint16(b, o) + 65536 * getUint16(b, o + 2)

\* the last index of every run.  The tags searched for start with two bytes
\* that differ (E0 7F, 28 00), so a match can only start where a run ends:
\* the scans below visit these offsets instead of every offset.
RunEnds(b) == {RunsLen(SubSeq(b.runs, 1, k)) - 1 : k \in 1..Len(b.runs)}

\* the offsets i < limit at which the loop reads group and element as `tag`
TagOffsets(b, tag, limit) ==
    {i \in RunEnds(b) : /\ i >= 0
                        /\ i < limit
                        /\ getUint16(b, i) = tag[1]
                        /\ getUint16(b, i + 2) = tag[2]}

Info(dataOffset, length, vr) ==
    [found |-> TRUE, offset |-> dataOffset, length |-> length, vr |-> vr]

Located(threw, info) == [threw |-> threw, info |-> info]

\* the body of the loop at the first offset i holding the PixelData tag
PixelDataAt(b, i) ==
    LET byteLength == BLen(b)
        vr         == <<BAt(b, i + 4), BAt(b, i + 5)>>
        binary     == vr \in {VR_OB, VR_OW}
        tempLength == getUint16(b, i + 6)
        tempOffset == i + 8
        skips      == binary /\ tempLength = 0 /\ tempOffset + 4 <= byteLength
        reads32    == skips \/ ~binary
        readAt     == IF skips THEN tempOffset + 2 ELSE i + 6
        length     == IF reads32 THEN getUint32(b, readAt) ELSE tempLength
        dataOffset == IF reads32 THEN readAt + 4 ELSE tempOffset
        fitted     == IF length > byteLength - dataOffset
                      THEN byteLength - dataOffset ELSE length
        refitted   == IF dataOffset + fitted > byteLength
                      THEN byteLength - dataOffset ELSE fitted
    IN IF reads32 /\ OutOfBounds(b, readAt, 4)
       THEN Located(TRUE, NoInfo)
       ELSE Located(FALSE, Info(dataOffset, refitted, vr))

\* findPixelData: `for (let i = 0; i < arrayBuffer.byteLength - 12; i++)`,
\* returning at the first match, null when there is none
findPixelData(b) ==
    LET hits == TagOffsets(b, TagPixelData, BLen(b) - 12)
    IN IF hits = {} THEN Located(FALSE, NoInfo) ELSE PixelDataAt(b, SetMin(hits))

\* new Uint8Array(arrayBuffer, offset, length) would raise a RangeError
ViewOutOfBounds(b, info) ==
    info.offset > BLen(b) \/ info.length < 0 \/ info.offset + info.length > BLen(b)

\* new Uint8Array(arrayBuffer, offset, length)
PixelBytes(b, info) == Buf("u8", RunsTake(RunsDrop(b.runs, info.offset), info.length))

\* `(pixelBytes[i + 1] << 8) | pixelBytes[i]` exceeds 255 at an even i below
\* min(length, 1000)
hasHighValues(pixelBytes) ==
    \E i \in 0..(Min2(BLen(pixelBytes), 1000) - 1) :
        i % 2 = 0 /\ getUint16(pixelBytes, i) > 255

\* new Uint16Array(bytes): the little-endian pairs of an even number of bytes
RECURSIVE PairRuns(_)
PairRuns(rs) ==
    IF RunsLen(rs) < 2 THEN <<>>
    ELSE IF Head(rs).n >= 2
    THEN <<Run(Head(rs).n \div 2, 257 * Head(rs).v)>>
             \o PairRuns(RunsDrop(rs, 2 * (Head(rs).n \div 2)))
    ELSE <<Run(1, RunsAt(rs, 0) + 256 * RunsAt(rs, 1))>> \o PairRuns(RunsDrop(rs, 2))

\* the pixelData taken from the located bytes
TypedPixelData(b, info) ==
    IF ~info.found THEN NullBuf
    ELSE LET pixelBytes == PixelBytes(b, info)
         IN IF BLen(pixelBytes) % 2 = 0 /\ hasHighValues(pixelBytes)
            THEN Buf("u16", PairRuns(pixelBytes.runs))
            ELSE pixelBytes

\* findImageDimensions: the value 8 bytes after the last Rows and the last
\* Columns tag whose value lies in the buffer, 512 when there is none
DimensionAt(b, tag) ==
    LET hits == {i \in TagOffsets(b, tag, BLen(b) - 8) : i + 8 + 2 <= BLen(b)}
    IN IF hits = {} THEN DefaultDim ELSE getUint16(b, SetMax(hits) + 8)

findImageDimensions(b) == Dims(DimensionAt(b, TagRows), DimensionAt(b, TagColumns))

\* the buffers parseDicom is run on: an optional preamble, optional Rows and
\* Columns elements, an optional PixelData header, then the payload
Bytes(seq) == [k \in 1..Len(seq) |-> Run(1, seq[k])]

LeadSet == {<<>>, Fill(128, 0) \o Bytes(<<68, 73, 67, 77>>)}

DimElems(rows, columns) ==
    Bytes(ElemBytes(TagRows, VR_US, 2, LE16(rows)))
        \o Bytes(ElemBytes(TagColumns, VR_US, 2, LE16(columns)))

DimElemsSet == {<<>>, DimElems(10, 12), DimElems(11, 11)}

\* "short": explicit VR OW with a 2-byte length; "long": OW, two reserved
\* bytes and a 4-byte length; "implicit": no VR, a 4-byte length
PixelHeader(form, declared) ==
    IF form = "short"
    THEN Bytes(LE16(TagPixelData[1]) \o LE16(TagPixelData[2]) \o VR_OW
                   \o LE16(declared % 65536))
    ELSE IF form = "long" THEN Bytes(ElemBytes(TagPixelData, VR_OW, declared, <<>>))
    ELSE IF form = "implicit"
    THEN Bytes(LE16(TagPixelData[1]) \o LE16(TagPixelData[2]) \o LE32(declared))
    ELSE <<>>

HeaderForms == {"none", "short", "long", "implicit"}

\* payloads: up to MaxTail bytes of a cut-off file, and whole images.  Bytes
\* 9, 3 and 2 read as 16-bit samples above 255 when their number is even;
\* the payloads of zeros read as 8-bit samples.
PayloadSet ==
    {Fill(k, 7) : k \in 0..MaxTail}
        \cup {Fill(120, 9), Fill(121, 9), Fill(127, 9), Fill(254, 3),
              Fill(16384, 0), <<Run(1, 5), Run(131073, 0)>>, Fill(262144, 2)}

HeurInit ==
    /\ \E lead \in LeadSet, dimElems \in DimElemsSet, form \in HeaderForms,
          payload \in PayloadSet :
          \E declared \in {0, RunsLen(payload)} :
             arrayBuffer = Buf("u8", lead \o dimElems \o PixelHeader(form, declared)
                                         \o payload)
    /\ hpc = "locate"
    /\ heur = EmptyHeur
    /\ rangeError = FALSE
    /\ FolderIdle
    /\ DecoderIdle
    /\ MarchIdle
    /\ RendererIdle

\* `const pixelDataInfo = this.findPixelData(arrayBuffer)` returns
Locate ==
    /\ hpc = "locate"
    /\ ~findPixelData(arrayBuffer).threw
    /\ heur' = [heur EXCEPT !.pixelDataInfo = findPixelData(arrayBuffer).info]
    /\ hpc' = "extract"
    /\ UNCHANGED <<arrayBuffer, rangeError>>
    /\ UNCHANGED <<folderVars, decoderVars, marchVars, rendererVars>>

\* findPixelData reads outside the buffer: the RangeError leaves parseDicom
LocateThrows ==
    /\ hpc = "locate"
    /\ findPixelData(arrayBuffer).threw
    /\ rangeError' = TRUE
    /\ hpc' = "rejected"
    /\ UNCHANGED <<arrayBuffer, heur>>
    /\ UNCHANGED <<folderVars, decoderVars, marchVars, rendererVars>>

\* pixelData from the located bytes, then `dims = findImageDimensions(...)`
Extract ==
    /\ hpc = "extract"
    /\ LET pixelData == TypedPixelData(arrayBuffer, heur.pixelDataInfo)
           dims == findImageDimensions(arrayBuffer)
       IN /\ heur' = [heur EXCEPT !.pixelData = pixelData,
                                  !.rows = dims.rows, !.columns = dims.columns]
          /\ hpc' = IF pixelData = NullBuf THEN "estimate" ELSE "infer"
    /\ UNCHANGED <<arrayBuffer, rangeError>>
    /\ UNCHANGED <<folderVars, decoderVars, marchVars, rendererVars>>

\* the three `if (!pixelData)` blocks that estimate from the file size
Estimate ==
    /\ hpc = "estimate"
    /\ heur' = [heur EXCEPT !.pixelData = SizeFallback(heur.rows, heur.columns, arrayBuffer)]
    /\ hpc' = "infer"
    /\ UNCHANGED <<arrayBuffer, rangeError>>
    /\ UNCHANGED <<folderVars, decoderVars, marchVars, rendererVars>>

\* the dimension inference and the return
Infer ==
    /\ hpc = "infer"
    /\ LET dims == IF heur.pixelData # NullBuf
                   THEN InferDims(heur.rows, heur.columns, BLen(heur.pixelData))
                   ELSE Dims(heur.rows, heur.columns)
       IN heur' = [heur EXCEPT !.rows = dims.rows, !.columns = dims.columns]
    /\ hpc' = "returned"
    /\ UNCHANGED <<arrayBuffer, rangeError>>
    /\ UNCHANGED <<folderVars, decoderVars, marchVars, rendererVars>>

HeurNext == Locate \/ LocateThrows \/ Extract \/ Estimate \/ Infer

HeurSpec == HeurInit /\ [][HeurNext]_vars

----------------------------------------------------------------------------
(* VolumeRenderer.loadVolume.  A volume is { data, dimensions }; its data is *)
(* described by kind and length, the value at an index by VolumeDataAt.      *)

MaxDim == 2
MaxDepth == 4

\* "u8": the bytes processDicomFolder returns; "wide": a numeric array whose
\* values leave 0..255
VolumeDataAt(vol, i) ==
    IF vol.data.kind = "u8" THEN (37 * i + 11) % 256 ELSE ((41 * i) % 300) - 20

Volume(w, h, d, len, kind) ==
    [data |-> [kind |-> kind, length |-> len], dimensions |-> <<w, h, d>>, loaded |-> TRUE]

\* data lengths tried for declared dimensions w x h x d
LengthsFor(w, h, d) ==
    {n \in {w * h * d, w * h * d + 1, w * h * d - 1, d - 1, 4 * d, 4 * d + 1} : n >= 0}

\* the volumes of declared dimensions w x h x d
VolumesOf(w, h, d) ==
    {Volume(w, h, d, len, "u8") : len \in LengthsFor(w, h, d)}
        \cup {Volume(w, h, d, w * h * d, "wide")}

VolumeSet ==
    UNION {VolumesOf(dims[1], dims[2], dims[3]) :
             dims \in (1..MaxDim) \X (1..MaxDim) \X (0..MaxDepth)}
        \cup {Volume(60, 64, 1, 4096, "u8")}

\* Math.max(0, Math.min(255, Math.round(v))) stored into a Uint8Array
Texel(v) == Max2(0, Min2(255, v))

SlicesPerRowFloor(depth) == ISqrt(depth)

\* Math.ceil(Math.sqrt(depth))
SlicesPerRow(depth) == CeilSqrt(depth)

\* Math.ceil(depth / slicesPerRow): NaN for 0 / 0
RowCount(depth, slicesPerRow) ==
    IF slicesPerRow = 0 THEN NaN ELSE CeilDiv(depth, slicesPerRow)

\* rows * height
TexHeight(rows, height) == IF rows = NaN THEN NaN ELSE rows * height

\* length of new Uint8Array(texWidth * texHeight): 0 for NaN
TextureLength(texWidth, texHeight) == IF texHeight = NaN THEN 0 ELSE texWidth * texHeight

SliceColStuck(z, slicesPerRow) == 0

SliceCol(z, slicesPerRow) == z % slicesPerRow

SliceRow(z, slicesPerRow) == z \div slicesPerRow

\* the texture the fill loops leave for dimensions w x h x d.  Texel t of
\* the zero-filled array is written by slice z where t's column and row fall
\* in that slice's cell and both index checks pass; z ascends in the outer
\* loop, so the highest such z wrote last.
FillTexture(vol, w, h, d) ==
    LET slicesPerRow == SlicesPerRow(d)
        texWidth == slicesPerRow * w
        texHeight == TexHeight(RowCount(d, slicesPerRow), h)
        n == TextureLength(texWidth, texHeight)
        X(t, z) == (t % texWidth) - SliceCol(z, slicesPerRow) * w
        Y(t, z) == (t \div texWidth) - SliceRow(z, slicesPerRow) * h
        VolumeIdx(t, z) == z * w * h + Y(t, z) * w + X(t, z)
        Writers(t) == {z \in 0..(d - 1) : /\ X(t, z) \in 0..(w - 1)
                                          /\ Y(t, z) \in 0..(h - 1)
                                          /\ VolumeIdx(t, z) < vol.data.length}
    IN [k \in 1..n |->
          IF Writers(k - 1) = {} THEN 0
          ELSE Texel(VolumeDataAt(vol, VolumeIdx(k - 1, SetMax(Writers(k - 1)))))]

Layout(w, h, d) ==
    [defined |-> TRUE,
     width |-> SlicesPerRow(d) * w,
     height |-> TexHeight(RowCount(d, SlicesPerRow(d)), h),
     slices |-> d,
     volumeSize |-> <<w, h, d>>]

Grid(d) == [slicesPerRow |-> SlicesPerRow(d), rows |-> RowCount(d, SlicesPerRow(d))]

rendererCommonDims == <<64, 128, 256, 512, 1024>>

\* the search for "actual" dimensions when the data length and the declared
\* dimensions disagree: found, and the width and height found
FindFactors(vol) ==
    LET depth == vol.dimensions[3]
        likelySliceSize == IF depth = 0 THEN NaN ELSE vol.data.length \div depth
        common == {rendererCommonDims[k] : k \in 1..Len(rendererCommonDims)}
        hits == IF likelySliceSize = NaN THEN {}
                ELSE {k \in 1..Len(rendererCommonDims) :
                        /\ likelySliceSize % rendererCommonDims[k] = 0
                        /\ likelySliceSize \div rendererCommonDims[k] \in common}
    IN IF hits # {}
       THEN [found |-> TRUE, width |-> rendererCommonDims[SetMin(hits)],
             height |-> likelySliceSize \div rendererCommonDims[SetMin(hits)]]
       ELSE IF likelySliceSize # NaN /\ IsSquare(likelySliceSize)
            THEN [found |-> TRUE, width |-> ISqrt(likelySliceSize),
                  height |-> ISqrt(likelySliceSize)]
            ELSE [found |-> FALSE, width |-> vol.dimensions[1], height |-> vol.dimensions[2]]

Mismatch(vol) ==
    vol.data.length # vol.dimensions[1] * vol.dimensions[2] * vol.dimensions[3]

Adjusts(vol) == Mismatch(vol) /\ vol.data.length > 0 /\ FindFactors(vol).found

\* volumeData carries both a dimensions array and a data array
HasArrays(vol) == vol.data.kind # "undefined"

RendererInit ==
    /\ rpc = "ready"
    /\ RendererFresh
    /\ offered = VolumeSet
    /\ FolderIdle
    /\ DecoderIdle
    /\ HeurIdle
    /\ MarchIdle

\* the dimensions fit the data, or no other dimensions are found
LoadVolumeAsDeclared ==
    /\ rpc = "ready"
    /\ \E vol \in offered :
          /\ HasArrays(vol)
          /\ ~Adjusts(vol)
          /\ thisVolumeData' = vol
          /\ textureData' = FillTexture(vol, vol.dimensions[1], vol.dimensions[2],
                                        vol.dimensions[3])
          /\ textureLayout' = Layout(vol.dimensions[1], vol.dimensions[2], vol.dimensions[3])
          /\ grid' = Grid(vol.dimensions[3])
    /\ volumeTexture' = TRUE
    /\ adjusted' = FALSE
    /\ loadFailed' = FALSE
    /\ drawn' = NoDraw
    /\ UNCHANGED <<rpc, params, mouse, canvas, offered>>
    /\ UNCHANGED <<folderVars, decoderVars, heurVars, marchVars>>

\* other dimensions are found: the texture is laid out for them
LoadVolumeAdjusted ==
    /\ rpc = "ready"
    /\ \E vol \in offered :
          /\ HasArrays(vol)
          /\ Adjusts(vol)
          /\ FindFactors(vol).width * FindFactors(vol).height > 0
          /\ LET newWidth == FindFactors(vol).width
                 newHeight == FindFactors(vol).height
                 newDepth == vol.data.length \div (newWidth * newHeight)
             IN /\ thisVolumeData' = vol
                /\ textureData' = FillTexture(vol, newWidth, newHeight, newDepth)
                /\ textureLayout' = Layout(newWidth, newHeight, newDepth)
                /\ grid' = Grid(newDepth)
    /\ volumeTexture' = TRUE
    /\ adjusted' = TRUE
    /\ loadFailed' = FALSE
    /\ drawn' = NoDraw
    /\ UNCHANGED <<rpc, params, mouse, canvas, offered>>
    /\ UNCHANGED <<folderVars, decoderVars, heurVars, marchVars>>

\* the dimensions found are 0 x 0: newDepth is Infinity and the loop over z
\* does not end
LoadVolumeHangs ==
    /\ rpc = "ready"
    /\ \E vol \in offered :
          /\ HasArrays(vol)
          /\ Adjusts(vol)
          /\ FindFactors(vol).width * FindFactors(vol).height = 0
          /\ thisVolumeData' = vol
    /\ rpc' = "hung"
    /\ drawn' = NoDraw
    /\ UNCHANGED <<volumeTexture, textureData, textureLayout, grid, adjusted>>
    /\ UNCHANGED <<params, mouse, canvas, loadFailed, offered>>
    /\ UNCHANGED <<folderVars, decoderVars, heurVars, marchVars>>

RendererNext == LoadVolumeAsDeclared \/ LoadVolumeAdjusted \/ LoadVolumeHangs

RendererSpec == RendererInit /\ [][RendererNext]_vars

----------------------------------------------------------------------------
(* The interactive VolumeRenderer: mouse and wheel handlers, setSize, the    *)
(* four setters, loadVolume and render() with the fragment shader it runs.   *)

MaxTurn == 200
MaxRun == 2

\* what the page can hand to loadVolume: data that fits the dimensions, data
\* that makes loadVolume adjust them, data for which the slice loop does not
\* end, an empty stack, and an object without a data array
SceneSet ==
    {Volume(2, 2, 3, 12, "u8"), Volume(1, 2, 4, 17, "u8"), Volume(2, 2, 4, 3, "u8"),
     Volume(2, 2, 0, 0, "u8"), Volume(2, 2, 3, 0, "undefined")}

\* clientX, clientY of a mouse event; deltaY of a wheel event; the arguments
\* of setSize and of the setters
PointerSet == {<<0, 0>>, <<200, 200>>}
WheelSet == {0 - 3000, 3000}
SizeSet == {<<3, 3>>}
ThresholdSet == {40}
OpacitySet == {5}
WindowLevelSet == {1}
WindowWidthSet == {2}

setThreshold(p, value) == [p EXCEPT !.threshold = value]

setOpacity(p, value) == [p EXCEPT !.opacity = value]

setWindowLevelAndWidth(p, value) == [p EXCEPT !.windowLevel = value, !.windowWidth = value]

setWindowLevel(p, value) == [p EXCEPT !.windowLevel = value]

setWindowWidth(p, value) == [p EXCEPT !.windowWidth = value]

\* mousemove while dragging: rotationY += deltaX * 0.01, rotationX += deltaY *
\* 0.01 clamped to [-1.57, 1.57]
Dragged(p, m, e) ==
    [p EXCEPT !.rotationY = @ + (e[1] - m.lastMouseX),
              !.rotationX = Max2(0 - 157, Min2(157, @ + (e[2] - m.lastMouseY)))]

\* variant of Zoomed: the lower clamp at 0
ZoomedFromZero(p, deltaY) == [p EXCEPT !.zoom = Max2(0, Min2(3000, @ - deltaY))]

\* wheel: zoom += deltaY * -0.001 clamped to [0.1, 3.0]
Zoomed(p, deltaY) == [p EXCEPT !.zoom = Max2(100, Min2(3000, @ - deltaY))]

\* any handler other than render() ends a run of consecutive render() calls
EndsRenderRun == drawn' = NoDraw

ViewerInit ==
    /\ rpc = "ready"
    /\ RendererFresh
    /\ offered = SceneSet
    /\ FolderIdle
    /\ DecoderIdle
    /\ HeurIdle
    /\ MarchIdle

MouseDown ==
    /\ rpc = "ready"
    /\ \E e \in PointerSet :
          mouse' = [isDragging |-> TRUE, lastMouseX |-> e[1], lastMouseY |-> e[2]]
    /\ EndsRenderRun
    /\ UNCHANGED <<thisVolumeData, volumeTexture, textureData, textureLayout, grid, adjusted>>
    /\ UNCHANGED <<rpc, params, canvas, loadFailed, offered>>
    /\ UNCHANGED <<folderVars, decoderVars, heurVars, marchVars>>

MouseMove ==
    /\ rpc = "ready"
    /\ \E e \in PointerSet :
          IF mouse.isDragging
          THEN /\ Abs(Dragged(params, mouse, e).rotationY) <= MaxTurn
               /\ params' = Dragged(params, mouse, e)
               /\ mouse' = [mouse EXCEPT !.lastMouseX = e[1], !.lastMouseY = e[2]]
          ELSE UNCHANGED <<params, mouse>>
    /\ EndsRenderRun
    /\ UNCHANGED <<thisVolumeData, volumeTexture, textureData, textureLayout, grid, adjusted>>
    /\ UNCHANGED <<rpc, canvas, loadFailed, offered>>
    /\ UNCHANGED <<folderVars, decoderVars, heurVars, marchVars>>

\* variant of Released: the flag is left as it is
ReleasedStillDragging(m) == m

\* mouseup, mouseleave: this.isDragging = false
Released(m) == [m EXCEPT !.isDragging = FALSE]

MouseUp ==
    /\ rpc = "ready"
    /\ mouse' = Released(mouse)
    /\ EndsRenderRun
    /\ UNCHANGED <<thisVolumeData, volumeTexture, textureData, textureLayout, grid, adjusted>>
    /\ UNCHANGED <<rpc, params, canvas, loadFailed, offered>>
    /\ UNCHANGED <<folderVars, decoderVars, heurVars, marchVars>>

Wheel ==
    /\ rpc = "ready"
    /\ \E deltaY \in WheelSet : params' = Zoomed(params, deltaY)
    /\ EndsRenderRun
    /\ UNCHANGED <<thisVolumeData, volumeTexture, textureData, textureLayout, grid, adjusted>>
    /\ UNCHANGED <<rpc, mouse, canvas, loadFailed, offered>>
    /\ UNCHANGED <<folderVars, decoderVars, heurVars, marchVars>>

SetSize ==
    /\ rpc = "ready"
    /\ \E size \in SizeSet : canvas' = [width |-> size[1], height |-> size[2]]
    /\ EndsRenderRun
    /\ UNCHANGED <<thisVolumeData, volumeTexture, textureData, textureLayout, grid, adjusted>>
    /\ UNCHANGED <<rpc, params, mouse, loadFailed, offered>>
    /\ UNCHANGED <<folderVars, decoderVars, heurVars, marchVars>>

SetThreshold ==
    /\ rpc = "ready"
    /\ \E value \in ThresholdSet : params' = setThreshold(params, value)
    /\ EndsRenderRun
    /\ UNCHANGED <<thisVolumeData, volumeTexture, textureData, textureLayout, grid, adjusted>>
    /\ UNCHANGED <<rpc, mouse, canvas, loadFailed, offered>>
    /\ UNCHANGED <<folderVars, decoderVars, heurVars, marchVars>>

SetOpacity ==
    /\ rpc = "ready"
    /\ \E value \in OpacitySet : params' = setOpacity(params, value)
    /\ EndsRenderRun
    /\ UNCHANGED <<thisVolumeData, volumeTexture, textureData, textureLayout, grid, adjusted>>
    /\ UNCHANGED <<rpc, mouse, canvas, loadFailed, offered>>
    /\ UNCHANGED <<folderVars, decoderVars, heurVars, marchVars>>

SetWindowLevel ==
    /\ rpc = "ready"
    /\ \E value \in WindowLevelSet : params' = setWindowLevel(params, value)
    /\ EndsRenderRun
    /\ UNCHANGED <<thisVolumeData, volumeTexture, textureData, textureLayout, grid, adjusted>>
    /\ UNCHANGED <<rpc, mouse, canvas, loadFailed, offered>>
    /\ UNCHANGED <<folderVars, decoderVars, heurVars, marchVars>>

SetWindowWidth ==
    /\ rpc = "ready"
    /\ \E value \in WindowWidthSet : params' = setWindowWidth(params, value)
    /\ EndsRenderRun
    /\ UNCHANGED <<thisVolumeData, volumeTexture, textureData, textureLayout, grid, adjusted>>
    /\ UNCHANGED <<rpc, mouse, canvas, loadFailed, offered>>
    /\ UNCHANGED <<folderVars, decoderVars, heurVars, marchVars>>

\* volumeData has no data array: this.volumeData is assigned, then reading
\* volumeData.data.length throws
LoadVolumeThrows ==
    /\ rpc = "ready"
    /\ \E vol \in offered :
          /\ ~HasArrays(vol)
          /\ thisVolumeData' = vol
    /\ loadFailed' = TRUE
    /\ EndsRenderRun
    /\ UNCHANGED <<volumeTexture, textureData, textureLayout, grid, adjusted>>
    /\ UNCHANGED <<rpc, params, mouse, canvas, offered>>
    /\ UNCHANGED <<folderVars, decoderVars, heurVars, marchVars>>

(* The fragment shader.  A texel t of the LUMINANCE atlas is read as t / 255. *)
(* The uniforms are taken as the real numbers they denote (the rounding of   *)
(* mediump floats is left out), and fractions are compared by cross          *)
(* multiplication.                                                           *)

\* normalizedDensity > u_threshold / 255.0 for density = t / 255, with
\* windowMin = level - width * 0.5 and windowMax - windowMin = width > 0
AboveThreshold(t, p) ==
    LET num == 2 * t - 255 * (2 * p.windowLevel - p.windowWidth)
        den == 510 * p.windowWidth
        clamped == Max2(0, Min2(den, num))
    IN clamped * 255 > p.threshold * den

\* cos and sin in thousandths, of an angle in hundredths of a radian
Cos1000(a) ==
    CASE Abs(a) = 0 -> 1000
      [] Abs(a) = 43 -> 909
      [] Abs(a) = 157 -> 1
      [] Abs(a) = 200 -> 0 - 416

Sin1000(a) ==
    LET s == CASE Abs(a) = 0 -> 0
               [] Abs(a) = 43 -> 417
               [] Abs(a) = 157 -> 1000
               [] Abs(a) = 200 -> 909
    IN IF a < 0 THEN 0 - s ELSE s

\* the fragments of the canvas, by column and row
Fragments == (0..(canvas.width - 1)) \X (0..(canvas.height - 1))

\* variant of RayBase: the ray spread scaled by u_zoom
RayBaseZoomed(f) ==
    <<10 * canvas.height * (2 * f[1] + 1 - canvas.width),
      10 * canvas.width * (2 * f[2] + 1 - canvas.height),
      0 - 2 * canvas.width * canvas.height * (params.zoom \div 100)>>

\* vec3(v_texCoord - 0.5, -1.0) at the centre of fragment f, times
\* 2 * width * height; normalize() scales it by a positive factor
RayBase(f) ==
    <<canvas.height * (2 * f[1] + 1 - canvas.width),
      canvas.width * (2 * f[2] + 1 - canvas.height),
      0 - 2 * canvas.width * canvas.height>>

\* rotX * v and rotY * v, the mat3 constructors read column by column
RotX(v, a) ==
    LET x == v[1]  y == v[2]  z == v[3]  c == Cos1000(a)  s == Sin1000(a)
    IN <<1000 * x, y * c + z * s, z * c - y * s>>

RotY(v, a) ==
    LET x == v[1]  y == v[2]  z == v[3]  c == Cos1000(a)  s == Sin1000(a)
    IN <<x * c + z * s, 1000 * y, z * c - x * s>>

RayDir(f, p) == RotY(RotX(RayBase(f), p.rotationX), p.rotationY)

\* (volumeMin - rayOrigin) / rayDir and (volumeMax - rayOrigin) / rayDir
\* divide by each component of rayDir
ZeroComponent(d) == \E k \in 1..3 : d[k] = 0

DividesByZero(f, p) == ZeroComponent(RayDir(f, p))

(* sampleVolume.  A coordinate of pos is in thousandths of the cube's extent, *)
(* a texture coordinate in thousandths of a texel.                           *)

\* clamp(pos, 0.001, 0.999), one coordinate
ClampPos(c) == Max2(1, Min2(999, c))

\* floor(sliceF) for sliceF = pos.z * u_slices
SliceIdx(z, layout) == (ClampPos(z) * layout.slices) \div 1000

\* sliceFrac > 0.0 && sliceIdx < u_slices - 1.0
ReadsNextSlice(z, layout) ==
    /\ (ClampPos(z) * layout.slices) % 1000 > 0
    /\ SliceIdx(z, layout) < layout.slices - 1

\* the slices sampleVolume reads at depth z
SlicesRead(z, layout) ==
    {SliceIdx(z, layout)}
        \cup (IF ReadsNextSlice(z, layout) THEN {SliceIdx(z, layout) + 1} ELSE {})

\* row = floor(idx / slicesPerRow), col = mod(idx, slicesPerRow) for
\* slicesPerRow = ceil(sqrt(u_slices))
ShaderCell(idx, layout) ==
    [row |-> idx \div CeilSqrt(layout.slices), col |-> idx % CeilSqrt(layout.slices)]

\* uv = pos.xy * sliceSize + sliceOffset for slice idx, times the texture size
Uv(x, y, idx, layout) ==
    <<ClampPos(x) * layout.volumeSize[1]
          + 1000 * ShaderCell(idx, layout).col * layout.volumeSize[1],
      ClampPos(y) * layout.volumeSize[2]
          + 1000 * ShaderCell(idx, layout).row * layout.volumeSize[2]>>

\* TEXTURE_MIN_FILTER and TEXTURE_MAG_FILTER LINEAR, wrap CLAMP_TO_EDGE: the
\* texels of a row of n that get a positive weight at coordinate u
LinearTaps(u, n) ==
    LET c == Max2(500, Min2(1000 * n - 500, u))
    IN {(c - 500) \div 1000}
           \cup (IF (c - 500) % 1000 > 0 THEN {(c - 500) \div 1000 + 1} ELSE {})

\* the texels texture2D blends at uv
Footprint(uv, layout) == LinearTaps(uv[1], layout.width) \X LinearTaps(uv[2], layout.height)

\* the index of the slice whose cell holds texel t, counted past the last
\* slice for the cells the packer leaves empty
SliceOfTexel(t, layout) ==
    (t[2] \div layout.volumeSize[2]) * CeilSqrt(layout.slices)
        + (t[1] \div layout.volumeSize[1])

\* the fields render() leaves in this
RenderedParamsSpin ==
    [params EXCEPT !.rotationY = IF @ < MaxTurn THEN @ + 200 ELSE @]

RenderedParams == params

\* render() binds the texture and uploads the layout
TextureBound == volumeTexture /\ textureLayout.defined

\* what main() of the fragment shader computes in the current state: the ray
\* of each fragment (up to a positive factor), the fragments whose slab
\* intersection divides by zero and the texels that pass the threshold test
Image ==
    IF TextureBound /\ textureLayout.slices > 0
    THEN LET rays == [f \in Fragments |-> RayDir(f, params)]
         IN [gradient |-> FALSE,
             rays |-> rays,
             zeroDivisors |-> {f \in Fragments : ZeroComponent(rays[f])},
             composited |-> {i \in DOMAIN textureData :
                                AboveThreshold(textureData[i], params)}]
    ELSE [gradient |-> TRUE, rays |-> <<>>, zeroDivisors |-> {},
          composited |-> IF TextureBound
                         THEN {i \in DOMAIN textureData :
                                  AboveThreshold(textureData[i], params)}
                         ELSE {}]

\* the uniforms and the texture of one draw call, and what the shader does
\* with them
Frame ==
    LET bound == TextureBound
    IN [called |-> TRUE,
        run |-> Min2(drawn.run + 1, MaxRun),
        texture |-> IF bound THEN textureData ELSE <<>>,
        textureWidth |-> IF bound THEN textureLayout.width ELSE 1,
        textureHeight |-> IF bound THEN textureLayout.height ELSE 1,
        slices |-> IF bound THEN textureLayout.slices ELSE 0,
        volumeSize |-> IF bound THEN textureLayout.volumeSize ELSE <<1, 1, 1>>,
        threshold |-> params.threshold,
        opacity |-> params.opacity,
        windowLevel |-> params.windowLevel,
        windowWidth |-> params.windowWidth,
        u_zoom |-> params.zoom,
        u_rotationX |-> params.rotationX,
        u_rotationY |-> params.rotationY,
        composited |-> Image.composited,
        zeroDivisors |-> Image.zeroDivisors]

Render ==
    /\ rpc = "ready"
    /\ drawn' = Frame
    /\ params' = RenderedParams
    /\ UNCHANGED <<thisVolumeData, volumeTexture, textureData, textureLayout, grid, adjusted>>
    /\ UNCHANGED <<rpc, mouse, canvas, loadFailed, offered>>
    /\ UNCHANGED <<folderVars, decoderVars, heurVars, marchVars>>

ViewerNext ==
    \/ MouseDown \/ MouseMove \/ MouseUp \/ Wheel \/ SetSize
    \/ SetThreshold \/ SetOpacity \/ SetWindowLevel \/ SetWindowWidth
    \/ LoadVolumeAsDeclared \/ LoadVolumeAdjusted \/ LoadVolumeHangs \/ LoadVolumeThrows
    \/ Render

ViewerSpec == ViewerInit /\ [][ViewerNext]_vars

----------------------------------------------------------------------------
(* main() of the fragment shader from the slab intersection on: the ray    *)
(* marching of one fragment, one step per pass through the loop body.  A   *)
(* ray is a unit vector dir / den with integer dir; positions are in units *)
(* of 1 / (StepsPerUnit * den), so that `step = rayDir * 0.005` is dir.    *)
(* The alpha of a sample is given by step (density), in place of the       *)
(* texture read and the window: alpha 0 is a sample not above threshold.   *)

\* 1 / 0.005
StepsPerUnit == 200

\* `i < 200`
MaxSteps == 200

\* `accumulatedAlpha >= 0.95`, in ten-thousandths
OpaqueAlpha == 9500

MaxAbs(v) == Max2(Max2(Abs(v[1]), Abs(v[2])), Abs(v[3]))

Ray(a, b, c, den) == [dir |-> <<a, b, c>>, den |-> den]

\* unit vectors with rational components; (2, 3, -6) / 7 is the unrotated
\* ray of v_texCoord = (5/6, 1), (0, 0, -1) that of the centre of the screen
RaySet ==
    {Ray(2, 3, 0 - 6, 7), Ray(0 - 2, 0 - 3, 0 - 6, 7), Ray(6, 2, 3, 7),
     Ray(1, 2, 0 - 2, 3), Ray(0, 3, 0 - 4, 5), Ray(0, 0, 0 - 1, 1)}

\* vec3(0.5, 0.5, 0.5)
RayOrigin(r) == [k \in 1..3 |-> (StepsPerUnit \div 2) * r.den]

\* tNear = max over the axes of min(t1, t2), in steps, as a fraction: each
\* min(t1, t2) is -0.5 / |rayDir component|
TNearNum(r) == 0 - (StepsPerUnit \div 2) * r.den
TNearDen(r) == MaxAbs(r.dir)

Start(hit, lead) == [hit |-> hit, lead |-> lead]

\* max(0.0, tNear) in steps and whether `tNear > tFar || tFar < 0.0` lets the
\* ray through.  With a zero component in rayDir the divisions by it are
\* undefined: the ray may be let through or not, and tNear may be any value.
StartSet(r) ==
    IF ZeroComponent(r.dir)
    THEN {Start(TRUE, 0), Start(TRUE, 60), Start(FALSE, 0)}
    ELSE {Start(TRUE, IF TNearNum(r) > 0 THEN TNearNum(r) \div TNearDen(r) ELSE 0)}

\* startPos = rayOrigin + rayDir * max(0.0, tNear)
startPos(r, lead) == [k \in 1..3 |-> RayOrigin(r)[k] + lead * r.dir[k]]

\* the alpha `intensity * u_opacity * 0.05` of the sample at each step, in
\* ten-thousandths: alpha between steps from and to, nothing elsewhere
Density(from, to, alpha) == [from |-> from, to |-> to, alpha |-> alpha]

DensitySet ==
    {Density(0, MaxSteps, 0), Density(0, MaxSteps, 500), Density(0, MaxSteps, 40),
     Density(20, 40, 500), Density(3, MaxSteps, 50000)}

alphaAt(d, k) == IF d.from <= k /\ k <= d.to THEN d.alpha ELSE 0

\* `currentPosition.x < 0.0 || currentPosition.x > 1.0 || ...`
Outside(pos, r) == \E k \in 1..3 : pos[k] < 0 \/ pos[k] > StepsPerUnit * r.den

\* `accumulatedAlpha >= 0.95 || steps > 200`
Saturated == accumulatedAlpha >= OpaqueAlpha \/ steps > 200

\* accumulatedAlpha + alpha * (1.0 - accumulatedAlpha)
Blend(acc, alpha) == acc + (alpha * (10000 - acc)) \div 10000

MarchInit ==
    /\ \E r \in RaySet, d \in DensitySet :
          \E start \in StartSet(r) :
             /\ ray = r
             /\ density = d
             /\ mpc = (IF start.hit THEN "loop" ELSE "background")
             /\ currentPosition = (IF start.hit THEN startPos(r, start.lead)
                                   ELSE <<0, 0, 0>>)
    /\ steps = 0
    /\ accumulatedAlpha = 0
    /\ composited = {}
    /\ FolderIdle
    /\ DecoderIdle
    /\ HeurIdle
    /\ RendererIdle

\* the first `break`
BreakSaturated ==
    /\ mpc = "loop"
    /\ steps < MaxSteps
    /\ Saturated
    /\ mpc' = "done"
    /\ UNCHANGED <<ray, steps, currentPosition, accumulatedAlpha, density, composited>>
    /\ UNCHANGED <<folderVars, decoderVars, heurVars, rendererVars>>

\* the second `break`
BreakOutside ==
    /\ mpc = "loop"
    /\ steps < MaxSteps
    /\ ~Saturated
    /\ Outside(currentPosition, ray)
    /\ mpc' = "done"
    /\ UNCHANGED <<ray, steps, currentPosition, accumulatedAlpha, density, composited>>
    /\ UNCHANGED <<folderVars, decoderVars, heurVars, rendererVars>>

\* one pass through the body: the sample, its compositing when above
\* threshold, `currentPosition += step; steps++`
Sample ==
    /\ mpc = "loop"
    /\ steps < MaxSteps
    /\ ~Saturated
    /\ ~Outside(currentPosition, ray)
    /\ IF alphaAt(density, steps) > 0
       THEN /\ accumulatedAlpha' = Blend(accumulatedAlpha, alphaAt(density, steps))
            /\ composited' = composited \cup {steps}
       ELSE UNCHANGED <<accumulatedAlpha, composited>>
    /\ currentPosition' = [k \in 1..3 |-> currentPosition[k] + ray.dir[k]]
    /\ steps' = steps + 1
    /\ UNCHANGED <<ray, mpc, density>>
    /\ UNCHANGED <<folderVars, decoderVars, heurVars, rendererVars>>

MarchNext == BreakSaturated \/ BreakOutside \/ Sample

MarchSpec == MarchInit /\ [][MarchNext]_vars

----------------------------------------------------------------------------
(* Properties of parseDicom (strict, fixed) *)

\* C9 (as claimed): on a well-formed explicit-VR buffer the decode visits
\* exactly the elements encoded, each with its encoded value offset and
\* length, and ends with the offset at the buffer end.
C9_VisitsExactlyTheElements ==
    (dpc = "done" /\ WellFormed(elems)) =>
        /\ visited = Encoded(elems, StartOffset(buf))
        /\ offset = Len(buf)

\* C10 (as claimed): a step that abandons an element for overrunning the
\* buffer raises nothing, keeps every field decoded so far, and leaves the
\* decode running past the abandoned element's header.
C10_ResyncAfterOverrun ==
    [][AbandonElement =>
          /\ ~raised'
          /\ locals' = locals
          /\ dpc' = "loop"
          /\ offset' > offset]_vars

\* the visits of the pixel-data element
PixelVisits ==
    {k \in 1..Len(visited) : visited[k].tag = TagPixelData /\ visited[k].vr \in {VR_OW, VR_OB}}

\* the 16-bit value of the last visit of `tag` before visit k equals val
DecodedBefore(tag, val, k) ==
    LET js == {j \in 1..(k - 1) : visited[j].tag = tag} IN
    js # {} /\ U16(buf, visited[SetMax(js)].valueOffset) = val

\* C11 (as claimed): once the pixel-data element has been decoded, pixelData
\* is a 16-bit buffer (signed if pixel-representation 1 was decoded before
\* it, else unsigned) if bits-allocated 16 was decoded before it, else an
\* 8-bit unsigned buffer, and holds exactly the element's value bytes.
C11_PixelDataBuffer ==
    (dpc = "done" /\ PixelVisits # {}) =>
        LET k == SetMax(PixelVisits)
            kind == IF DecodedBefore(TagBitsAllocated, 16, k)
                    THEN IF DecodedBefore(TagPixelRepresentation, 1, k) THEN "i16" ELSE "u16"
                    ELSE "u8"
        IN /\ locals.pixelData.kind = kind
           /\ BLen(locals.pixelData) * (IF kind = "u8" THEN 1 ELSE 2) = visited[k].length

\* the first token of a backslash-delimited string that is a numeral
NumeralTokens(str) ==
    SelectSeq(SplitBackslash(str, <<>>),
              LAMBDA t : TrimLeft(t) # <<>> /\ ~ToNumber(t).nan)

\* C12 (as claimed): window center, window width and instance index given as
\* a backslash-delimited numeric string decode to the first token that is a
\* number, whatever the length of the string; given as a 2- or 4-byte integer
\* they decode to that integer.
C12_NumericValueDecoding ==
    dpc = "done" =>
        \A k \in 1..Len(visited) :
            LET v == visited[k]
                key == Hex4(v.tag[1]) \o Hex4(v.tag[2])
                str == SubSeq(buf, v.valueOffset + 1, v.valueOffset + v.length)
                last == \A j \in (k + 1)..Len(visited) : visited[j].tag # v.tag
            IN (v.tag \in {TagWindowCenter, TagWindowWidth, TagInstanceNumber} /\ last) =>
                  /\ key \in DOMAIN locals.metadata
                  /\ (v.vr \in {VR_IS, VR_DS} /\ Len(NumeralTokens(str)) > 0) =>
                        locals.metadata[key] = ToNumber(NumeralTokens(str)[1]).val
                  /\ (v.vr \notin {VR_IS, VR_DS} /\ v.length = 2) =>
                        locals.metadata[key] \in {U16(buf, v.valueOffset), I16(buf, v.valueOffset)}

----------------------------------------------------------------------------
(* Properties of VolumeRenderer.loadVolume *)

Loaded == rpc = "ready" /\ thisVolumeData.loaded

\* C4: for a volume whose data length is width*height*depth, voxel (x, y, z)
\* is at atlas column (z mod slicesPerRow)*width + x, row
\* floor(z/slicesPerRow)*height + y (as the byte the texture stores for it,
\* the voxel itself for 8-bit data); distinct voxels have distinct texels;
\* every texel no voxel maps to is zero.
C4_AtlasPlacement ==
    (Loaded /\ ~Mismatch(thisVolumeData)) =>
        LET width == thisVolumeData.dimensions[1]
            height == thisVolumeData.dimensions[2]
            depth == thisVolumeData.dimensions[3]
            slicesPerRow == CeilSqrt(depth)
            Pos(v) == ((v[3] \div slicesPerRow) * height + v[2]) * textureLayout.width
                          + (v[3] % slicesPerRow) * width + v[1] + 1
            Voxel(v) == VolumeDataAt(thisVolumeData,
                                     v[3] * width * height + v[2] * width + v[1])
            voxels == (0..(width - 1)) \X (0..(height - 1)) \X (0..(depth - 1))
            covered == {Pos(v) : v \in voxels}
        IN /\ \A v \in voxels :
                 /\ Pos(v) \in 1..Len(textureData)
                 /\ textureData[Pos(v)] = Texel(Voxel(v))
                 /\ thisVolumeData.data.kind = "u8" => textureData[Pos(v)] = Voxel(v)
           /\ Cardinality(covered) = width * height * depth
           /\ \A t \in (1..Len(textureData)) \ covered : textureData[t] = 0

\* three 2 x 2 slices of bytes on a 2 x 2 grid of cells, the fourth cell empty
C4_Witness ==
    /\ Loaded
    /\ ~Mismatch(thisVolumeData)
    /\ thisVolumeData.dimensions = <<2, 2, 3>>
    /\ thisVolumeData.data.kind = "u8"
    /\ Len(textureData) = 16
    /\ textureData[16] = 0
    /\ textureData[9] = VolumeDataAt(thisVolumeData, 8)

\* C5 (as claimed): after a load of a volume of declared depth D >= 1 the
\* layout is that of the declared dimensions: slicesPerRow = ceil(sqrt(D)),
\* rows = ceil(D / slicesPerRow), atlas width = slicesPerRow * width, atlas
\* height = rows * height, and slicesPerRow * rows >= D.
C5_LayoutFromDeclaredDims ==
    (Loaded /\ thisVolumeData.dimensions[3] >= 1) =>
        LET D == thisVolumeData.dimensions[3]
            slicesPerRow == CeilSqrt(D)
            rows == CeilDiv(D, slicesPerRow)
        IN /\ grid = [slicesPerRow |-> slicesPerRow, rows |-> rows]
           /\ textureLayout.width = slicesPerRow * thisVolumeData.dimensions[1]
           /\ textureLayout.height = rows * thisVolumeData.dimensions[2]
           /\ slicesPerRow * rows >= D

\* C5 (amended): after a load of a volume of declared depth D >= 1 the layout
\* is that of the dimensions recorded in textureLayout.volumeSize, whose depth
\* is >= 1.  These are the declared dimensions when the data length fits them
\* or no other dimensions are found; otherwise they are the dimensions found:
\* width * height = floor(length / D), depth = floor(length / (width * height)).
C5_LayoutFromEffectiveDims ==
    (Loaded /\ thisVolumeData.dimensions[3] >= 1) =>
        LET size == textureLayout.volumeSize
            slicesPerRow == CeilSqrt(size[3])
            rows == CeilDiv(size[3], slicesPerRow)
            length == thisVolumeData.data.length
        IN /\ textureLayout.defined
           /\ size[3] >= 1
           /\ textureLayout.slices = size[3]
           /\ grid = [slicesPerRow |-> slicesPerRow, rows |-> rows]
           /\ textureLayout.width = slicesPerRow * size[1]
           /\ textureLayout.height = rows * size[2]
           /\ slicesPerRow * rows >= size[3]
           /\ adjusted <=> Adjusts(thisVolumeData)
           /\ ~adjusted => size = thisVolumeData.dimensions
           /\ adjusted =>
                 /\ size[1] * size[2] = length \div thisVolumeData.dimensions[3]
                 /\ size[3] = length \div (size[1] * size[2])

\* 1 x 2 x 4 declared for 17 samples: the layout is that of 2 x 2 x 4
C5_Witness ==
    /\ Loaded
    /\ adjusted
    /\ thisVolumeData.dimensions = <<1, 2, 4>>
    /\ thisVolumeData.data.length = 17
    /\ textureLayout.volumeSize = <<2, 2, 4>>
    /\ textureLayout.width = 4
    /\ textureLayout.height = 4

----------------------------------------------------------------------------
(* Further properties of processDicomFolder *)

\* C13 (as claimed): a readable file with n > 0 samples and declared
\* rows*columns = e is accepted cut to its first e samples when n >= e,
\* accepted zero-padded to e samples when 100 < n < e, dropped when n < e
\* and n <= 100.
C13_AcceptPadOrDrop ==
    fpc = "done" =>
        \A i \in 1..Len(files) :
            LET f == files[i]
                n == BLen(f.pixelData)
                e == f.rows * f.columns
                mine == {z \in 1..Len(slices) : slices[z].src = i}
            IN (~f.throws /\ n > 0) =>
                  IF n >= e
                  THEN \E z \in mine : slices[z].data = BSlice0(f.pixelData, e)
                  ELSE IF n > MinSamples
                  THEN \E z \in mine : slices[z].data = PaddedData(f.pixelData, e)
                  ELSE mine = {}

----------------------------------------------------------------------------
(* Properties of the interactive VolumeRenderer *)

\* the fields of the renderer a frame is drawn from
RenderInputs == <<params, thisVolumeData, volumeTexture, textureData, textureLayout, canvas>>

\* a frame without the count of render() calls it closes
Shown(d) == [d EXCEPT !.run = 0]

\* C14: render() changes no field of the renderer (threshold, opacity, window
\* level and width, rotations, zoom, volumeData, textureLayout, atlas), and a
\* render() that follows a render() with no other handler in between hands
\* the shader the same uniforms and atlas and gets the same frame.
C14_RenderIsIdempotent ==
    [][Render => /\ UNCHANGED RenderInputs
                 /\ drawn.called => Shown(drawn') = Shown(drawn)]_vars

\* two render() calls in a row drew a loaded volume, part of it composited,
\* with parameters that differ from the defaults
C14_Witness ==
    /\ drawn.run = 2
    /\ thisVolumeData.loaded
    /\ params.threshold # InitParams.threshold
    /\ params.rotationX # 0
    /\ drawn.composited # {}
    /\ drawn.composited # DOMAIN drawn.texture

\* the dimensions loadVolume lays the atlas out for
EffectiveDims(vol) ==
    IF Adjusts(vol)
    THEN <<FindFactors(vol).width, FindFactors(vol).height,
           vol.data.length \div (FindFactors(vol).width * FindFactors(vol).height)>>
    ELSE vol.dimensions

\* volumeData, textureLayout and the atlas describe one volume, or none
ActiveIsOneVolume ==
    IF thisVolumeData = NoVolumeData
    THEN textureLayout = NoLayout /\ textureData = <<>>
    ELSE /\ HasArrays(thisVolumeData)
         /\ LET dims == EffectiveDims(thisVolumeData)
            IN /\ textureLayout = Layout(dims[1], dims[2], dims[3])
               /\ textureData = FillTexture(thisVolumeData, dims[1], dims[2], dims[3])

\* C15 (as claimed): loadVolume is an atomic swap.  Whenever render() can run,
\* volumeData, textureLayout and the atlas describe the same volume, and a
\* loadVolume call that does not complete leaves all three as they were.
C15_AtomicSwap ==
    /\ [](rpc = "ready" => ActiveIsOneVolume)
    /\ [][(LoadVolumeThrows \/ LoadVolumeHangs)
            => UNCHANGED <<thisVolumeData, textureData, textureLayout>>]_vars

----------------------------------------------------------------------------
(* Further properties of processDicomFolder: the slabs of the volume *)

\* slab z of the assembled volume, before the 16-bit normalization
VolumeSlab(z, sliceSize) ==
    Buf(volumeData.kind, RunsTake(RunsDrop(volumeData.runs, (z - 1) * sliceSize), sliceSize))

\* two buffers hold the same samples
SameSamples(a, b) ==
    /\ BLen(a) = BLen(b)
    /\ \A i \in Probes(a, b) : i < BLen(a) => BAt(a, i) = BAt(b, i)

\* C19 (as claimed): every slab of the returned volume, rows*columns of the
\* first ordered record long, is filled from the samples of its own record in
\* order: the record holds exactly that many samples (its own padding
\* included), none left out of the slab and no part of the slab left unfilled.
C19_SlabsHoldTheirRecords ==
    Returned =>
        \A z \in 1..Len(slices) :
            LET sliceSize == slices[1].rows * slices[1].columns
            IN /\ BLen(slices[z].data) = sliceSize
               /\ SameSamples(VolumeSlab(z, sliceSize), slices[z].data)

\* the tag-stream decode of file i produced samples.  The robust parseDicom
\* has no tag-stream decode.
StandardDecodeYields(i) ==
    /\ variant # "robust"
    /\ BLen(ParseDicom(variant, files[i]).pixelData) > 0

\* the raw scan for the pixel-data tag ran over file i: in findPixelData, the
\* first statement of the robust parseDicom, or in the recovery loop
FallbackTried(i) ==
    \/ variant = "robust"
    \/ HasRecovery(variant) /\ recovered

\* C20 (as claimed): when the call is over, the raw pixel-data scan has run
\* over exactly the readable files whose tag-stream decode produced no
\* samples: over none whose decode succeeded, and over every one whose decode
\* failed.
C20_FallbackOnlyAndAlwaysAfterFailure ==
    fpc = "done" =>
        \A i \in 1..Len(files) :
            ~files[i].throws => (FallbackTried(i) <=> ~StandardDecodeYields(i))

----------------------------------------------------------------------------
(* Further properties of the interactive VolumeRenderer *)

\* clamp((s - (level - width / 2)) / width, 0, 1) > threshold / 255 for a
\* sample s in 0..255 and width > 0
AboveThresholdInVoxelUnits(s, level, width, threshold) ==
    LET num == 2 * s - (2 * level - width)
        den == 2 * width
        clamped == Max2(0, Min2(den, num))
    IN clamped * 255 > threshold * den

\* C16 (as claimed): a stored sample s in 0..255 is composited exactly when
\* clamp((s - (windowLevel - windowWidth/2)) / windowWidth, 0, 1) exceeds
\* threshold/255, s being in the units of windowLevel and windowWidth; with
\* threshold 100, level 128 and width 256 a sample of 50 is discarded and a
\* sample of 200 is composited.
C16_WindowThenThreshold ==
    drawn.called =>
        \A i \in DOMAIN drawn.texture :
            i \in drawn.composited
                <=> AboveThresholdInVoxelUnits(drawn.texture[i], drawn.windowLevel,
                                               drawn.windowWidth, drawn.threshold)

\* C17 (as claimed): the slab intersection divides by zero for no fragment and
\* no rotation, rays with a zero direction component included.  (The ray
\* starts at the centre of the cube, so tNear < 0 < tFar and no ray has
\* tNear = tFar.)
C17_NoDivisionByZero == drawn.called => drawn.zeroDivisors = {}

LoadVolume ==
    LoadVolumeAsDeclared \/ LoadVolumeAdjusted \/ LoadVolumeHangs \/ LoadVolumeThrows

\* C18: loadVolume leaves threshold, opacity, windowLevel, windowWidth,
\* rotationX, rotationY and zoom unchanged, and each of setThreshold,
\* setOpacity, setWindowLevel and setWindowWidth changes its own parameter
\* only, leaving the other parameters, volumeData and textureLayout unchanged.
C18_ParametersAndVolumeIndependent ==
    [][/\ params' = params \/ ~LoadVolume
       /\ SetThreshold => /\ [params' EXCEPT !.threshold = params.threshold] = params
                          /\ UNCHANGED <<thisVolumeData, textureLayout>>
       /\ SetOpacity => /\ [params' EXCEPT !.opacity = params.opacity] = params
                        /\ UNCHANGED <<thisVolumeData, textureLayout>>
       /\ SetWindowLevel => /\ [params' EXCEPT !.windowLevel = params.windowLevel] = params
                            /\ UNCHANGED <<thisVolumeData, textureLayout>>
       /\ SetWindowWidth => /\ [params' EXCEPT !.windowWidth = params.windowWidth] = params
                            /\ UNCHANGED <<thisVolumeData, textureLayout>>]_vars

\* a volume is loaded, its dimensions adjusted, and the window level and the
\* threshold were set while the other parameters are those of init() or of
\* the mouse
C18_Witness ==
    /\ rpc = "ready"
    /\ thisVolumeData.loaded
    /\ adjusted
    /\ params.windowLevel \in WindowLevelSet
    /\ params.threshold \in ThresholdSet
    /\ params.windowWidth = InitParams.windowWidth
    /\ params.opacity = InitParams.opacity
    /\ params.zoom # InitParams.zoom

\* C25: after any sequence of mouse and wheel events rotationX lies within
\* [-pi/2, pi/2] and zoom within [0.1, 3.0]; a drag of one pixel turns the
\* view by 0.01 rad and one unit of wheel delta changes zoom by -0.001, both
\* before clamping.
C25_ViewStaysInRange ==
    /\ [](/\ 100 * Abs(params.rotationX) <= 15708
          /\ params.zoom >= 100
          /\ params.zoom <= 3000)
    /\ [][/\ (MouseMove /\ mouse.isDragging) =>
               /\ params'.rotationY
                     = params.rotationY + (mouse'.lastMouseX - mouse.lastMouseX)
               /\ params'.rotationX
                     = Max2(0 - 157, Min2(157, params.rotationX
                                                + (mouse'.lastMouseY - mouse.lastMouseY)))
          /\ Wheel => \E deltaY \in WheelSet :
                         params'.zoom = Max2(100, Min2(3000, params.zoom - deltaY))]_vars

\* the vertical rotation was clamped at -1.57 and the zoom at 0.1, the view
\* being turned about the other axis as well
C25_Witness ==
    /\ params.rotationX = 0 - 157
    /\ params.zoom = 100
    /\ params.rotationY # 0
    /\ mouse.isDragging

\* history-free reading of "a mousedown with no mouseup or mouseleave since":
\* the last of these three events was a mousedown exactly when this.isDragging
DragDiscipline ==
    /\ MouseDown => mouse'.isDragging
    /\ MouseUp => ~mouse'.isDragging
    /\ (MouseMove \/ Wheel) => mouse'.isDragging = mouse.isDragging

\* C29: rotationX and rotationY change only on a mousemove that follows a
\* mousedown with no mouseup or mouseleave in between; a mousemove while not
\* dragging leaves rotationX, rotationY, lastMouseX and lastMouseY unchanged;
\* no mouse event other than wheel changes zoom.
C29_DragIsATwoStateMachine ==
    [][/\ DragDiscipline
       /\ (params'.rotationX # params.rotationX \/ params'.rotationY # params.rotationY)
             => (MouseMove /\ mouse.isDragging)
       /\ (MouseMove /\ ~mouse.isDragging) => UNCHANGED <<params, mouse>>
       /\ (MouseDown \/ MouseMove \/ MouseUp) => params'.zoom = params.zoom]_vars

\* the view was turned by a drag, and a later mousedown at another point has
\* not moved it
C29_Witness ==
    /\ params.rotationY = 200
    /\ params.rotationX = 157
    /\ mouse = [isDragging |-> TRUE, lastMouseX |-> 0, lastMouseY |-> 0]

\* a step between two states that differ in zoom or in the drag bookkeeping
\* and in nothing else a frame is drawn from (the steps of wheel, mousedown,
\* mouseup, mouseleave and of mousemove while not dragging)
OnlyZoomOrBookkeeping ==
    /\ params' # params \/ mouse' # mouse
    /\ [params' EXCEPT !.zoom = params.zoom] = params
    /\ UNCHANGED <<thisVolumeData, volumeTexture, textureData, textureLayout, canvas, drawn>>

----------------------------------------------------------------------------
(* Termination of the decode loop *)

\* C23: the tag-decoding loop of parseDicom terminates for every buffer: each
\* iteration leaves the loop or strictly increases the read offset, the
\* iterations through the catch branch and those that abandon an overrunning
\* element included; while the loop runs the offset never passes the end of
\* the buffer by more than the alignment byte, so the iterations are finitely
\* many.
C23_DecodeLoopTerminates ==
    [][/\ (dpc = "loop" /\ dpc' = "loop") => offset' > offset
       /\ dpc' = "loop" => offset' <= Len(buf) + 1]_vars

\* a decode that abandoned an element, went through the catch branch and
\* handled an element came to its end
C23_Witness ==
    /\ dpc = "done"
    /\ ~raised
    /\ abandoned > 0
    /\ caught > 0
    /\ Len(visited) > 1

----------------------------------------------------------------------------
(* Further properties of processDicomFolder: assembly as a barrier *)

\* C22: sorting and assembly begin only when the parse attempt of every file
\* of the batch is over: no voxel is written and nothing is returned while a
\* file is still to be parsed, and a returned volume holds a slice for every
\* file the pass that fed it accepts.
C22_AssemblyIsABarrier ==
    /\ fpc # "done" => (volumeData = NullBuf /\ result = NoVolume)
    /\ Returned =>
          /\ fidx > Len(files)
          /\ accepted = (IF recovered THEN RecoveryAccepts ELSE FirstPassAccepts)
          /\ Depth = Cardinality(accepted)

\* a volume was returned for a batch of three files of which the first was
\* dropped and the last accepted
C22_Witness ==
    /\ Returned
    /\ Len(files) = 3
    /\ accepted = {2, 3}
    /\ Depth = 2

----------------------------------------------------------------------------
(* Further properties of processDicomFolder: padding *)

\* the samples the pass that accepted file i took its slice from
SourceRecord(i) ==
    IF ~recovered THEN ParseDicom(variant, files[i]).pixelData
    ELSE IF variant = "fixed" THEN files[i].rec.pixelData
    ELSE files[i].raw

\* C28 (as claimed): a slice made from a record of n < rows*columns samples
\* holds the record's n sample values unchanged, 16-bit values included,
\* followed by rows*columns - n zeros, and the volume stores exactly these
\* values in the slice's slab before normalization.
C28_PaddingPreservesSamples ==
    Returned =>
        \A z \in 1..Len(slices) :
            LET rec == SourceRecord(slices[z].src)
                n == BLen(rec)
                e == slices[z].rows * slices[z].columns
            IN n < e =>
                  /\ BLen(slices[z].data) = e
                  /\ \A i \in Probes(rec, rec) : BAt(slices[z].data, i) = BAt(rec, i)
                  /\ \A i \in RunStarts(slices[z].data.runs, 0) :
                        i >= n => BAt(slices[z].data, i) = 0
                  /\ SameSamples(VolumeSlab(z, slices[1].rows * slices[1].columns),
                                 slices[z].data)

----------------------------------------------------------------------------
(* findPixelData and the buffer *)

ReturnedLocationInBuffer ==
    heur.pixelDataInfo.found =>
        /\ 0 <= heur.pixelDataInfo.offset
        /\ 0 <= heur.pixelDataInfo.length
        /\ ~ViewOutOfBounds(arrayBuffer, heur.pixelDataInfo)

\* C27: findPixelData reads no byte outside the buffer, so no RangeError
\* leaves it wherever the PixelData tag lies and whatever follows it, and a
\* location it returns satisfies 0 <= offset and offset + length <= byteLength.
C27_FindPixelDataStaysInBuffer == ~rangeError /\ ReturnedLocationInBuffer

----------------------------------------------------------------------------
(* The dimension inference of the robust parser *)

\* the sizes the claim lists, as <<rows, columns>>, for a count n
ListedSizes(n) ==
    {k \in 1..Len(commonSizes) : commonSizes[k][1] * commonSizes[k][2] = n}

\* the integer factors of n that are <= sqrt(n)
Factors(n) == {w \in 1..ISqrt(n) : n % w = 0}

ExpectedDims(located, n) ==
    IF located.rows * located.columns = n THEN located
    ELSE IF ListedSizes(n) # {}
    THEN LET first == commonSizes[SetMin(ListedSizes(n))]
         IN [rows |-> first[2], columns |-> first[1]]
    ELSE IF ISqrt(n) * ISqrt(n) = n
    THEN [rows |-> ISqrt(n), columns |-> ISqrt(n)]
    ELSE [rows |-> n \div SetMax(Factors(n)), columns |-> SetMax(Factors(n))]

ReturnedWithPixels == hpc = "returned" /\ heur.pixelData # NullBuf

\* C21: whenever the robust parseDicom returns pixelData, rows * columns
\* equals pixelData.length: located dimensions that disagree with the count
\* are replaced by the first listed common size with that product, else by
\* the exact integer square root, else by the largest factor <= sqrt(count)
\* as columns and count / factor as rows.
C21_DimensionsMatchTheCount ==
    ReturnedWithPixels =>
        LET n == BLen(heur.pixelData)
        IN /\ heur.rows * heur.columns = n
           /\ [rows |-> heur.rows, columns |-> heur.columns]
                  = ExpectedDims(findImageDimensions(arrayBuffer), n)

\* a prime count, 127 samples located as 10 x 12, returned as 127 rows of 1
C21_Witness ==
    /\ ReturnedWithPixels
    /\ BLen(heur.pixelData) = 127
    /\ findImageDimensions(arrayBuffer) = Dims(10, 12)
    /\ heur.rows = 127 /\ heur.columns = 1

----------------------------------------------------------------------------
(* The atlas lookup of the shader and the packer *)

DepthGrid == 0..1000

EdgeGrid == {0, 1, 500, 999, 1000}

AtlasLoaded == volumeTexture /\ textureLayout.defined /\ textureLayout.slices >= 1

\* the cell loadVolume wrote slice z to
PackedCell(z) ==
    [row |-> SliceRow(z, grid.slicesPerRow), col |-> SliceCol(z, grid.slicesPerRow)]

\* slice index in range, cell as packed, partner only below the last slice
LookupArithmeticAgrees ==
    AtlasLoaded =>
        \A z \in DepthGrid :
            /\ SliceIdx(z, textureLayout) \in 0..(textureLayout.slices - 1)
            /\ \A idx \in SlicesRead(z, textureLayout) :
                  /\ idx <= textureLayout.slices - 1
                  /\ ShaderCell(idx, textureLayout) = PackedCell(idx)

\* every texel blended into a read lies in a cell of a slice
ReadsStayInSlices ==
    AtlasLoaded =>
        \A z \in DepthGrid, x \in EdgeGrid, y \in EdgeGrid :
            \A idx \in SlicesRead(z, textureLayout) :
                \A t \in Footprint(Uv(x, y, idx, textureLayout), textureLayout) :
                    SliceOfTexel(t, textureLayout) <= textureLayout.slices - 1

\* C26: for every loaded depth D >= 1 and every position of the unit cube,
\* the slice index sampleVolume computes lies in 0..D-1, the cell it derives
\* for a slice is the cell loadVolume wrote that slice to, slice z+1 is read
\* only when z+1 <= D-1, and no atlas cell beyond the last slice is sampled.
C26_LookupAgreesWithPacker == LookupArithmeticAgrees /\ ReadsStayInSlices

----------------------------------------------------------------------------
(* The ray-marching loop *)

\* pos is rayOrigin + tNear * rayDir, the point of the cube's boundary the
\* slab intersection calls near
AtNearIntersection(pos, r) ==
    \A k \in 1..3 :
        pos[k] * TNearDen(r) = RayOrigin(r)[k] * TNearDen(r) + TNearNum(r) * r.dir[k]

\* a stop condition holds: opaque enough, or off the cube
Stopped == accumulatedAlpha >= OpaqueAlpha \/ Outside(currentPosition, ray)

\* at most MaxSteps steps of length 0.005 each; the loop ends at once when a
\* stop condition holds and composites nothing then
MarchDiscipline ==
    /\ steps' <= MaxSteps
    /\ steps' # steps =>
          /\ steps' = steps + 1
          /\ \A k \in 1..3 : currentPosition'[k] - currentPosition[k] = ray.dir[k]
          /\ ray.dir[1] * ray.dir[1] + ray.dir[2] * ray.dir[2] + ray.dir[3] * ray.dir[3]
                 = ray.den * ray.den
    /\ (mpc = "loop" /\ Stopped) => (mpc' = "done" /\ composited' = composited)
    /\ composited' # composited => ~Stopped

MarchIsDisciplined == [][MarchDiscipline]_vars

\* C24: for every screen sample the loop takes at most 200 steps of length
\* 0.005, starts at the near intersection of the ray with the unit cube,
\* stops as soon as the accumulated opacity is >= 0.95 or the position
\* leaves [0,1] on an axis, and composites no sample once either holds.
C24_MarchFromNearIntersection ==
    [][/\ MarchDiscipline
       /\ (mpc = "loop" /\ steps = 0) => AtNearIntersection(currentPosition, ray)]_vars

====
